---- MODULE Spec2Model ----
(***************************************************************************)
(* Verification model of the zenzefi backend: the credit ledger            *)
(* (CurrencyService), the token lifecycle with its Redis cache             *)
(* (TokenService), bundle purchases (BundleService) and the proxy session  *)
(* tracker (SessionService).                                               *)
(*                                                                         *)
(* Money is held in cents (the NUMERIC(10,2) columns); amounts passed in   *)
(* by callers are Decimals and are given in mills (1/1000 ZNC) so that     *)
(* the rounding done on storage is visible.  Time is in seconds.           *)
(*                                                                         *)
(* ret is the record of the last call: its arguments, what it returned or  *)
(* raised, the caller's balance when it started (bal0) and the amount of   *)
(* the transaction row it wrote (row).                                     *)
(***************************************************************************)
EXTENDS Integers, Sequences, FiniteSets, Bags, TLC

(***************************************************************************)
(* Bounds of the model.                                                    *)
(***************************************************************************)
MaxTx == 5
MaxTokens == 2
MaxSessions == 2
MaxRequests == 2
MaxIssued == 1
MaxLateRequests == 2

(***************************************************************************)
(* Program constants.                                                      *)
(***************************************************************************)
TOKEN_PRICE_1H == 100
TOKEN_PRICE_12H == 1000
TOKEN_PRICE_24H == 1800
TOKEN_PRICE_7D == 10000
TOKEN_PRICE_30D == 30000
SecondsPerHour == 3600
SecondsPerMinute == 60
BonusThreshold == 10000
InactiveMinutes == 5

NULL == -1

(***************************************************************************)
(* The rows the model starts from: two registered users, bob referred by   *)
(* alice, and the bundle catalogue.  "ghost" is an id no user row has.     *)
(***************************************************************************)
Users == {"alice", "bob"}
UserIds == Users \cup {"ghost"}
Scopes == {"full", "certificates_only"}

referred_by_id(u) == IF u = "bob" THEN "alice" ELSE ""

BundleIds == {"pack", "solo", "retired", "missing"}
Bundles == [pack    |-> [token_count |-> 2, duration_hours |-> 168, scope |-> "full",
                         total_price |-> 15300, is_active |-> TRUE],
            solo    |-> [token_count |-> 1, duration_hours |-> 720, scope |-> "full",
                         total_price |-> 12000, is_active |-> TRUE],
            retired |-> [token_count |-> 1, duration_hours |-> 1, scope |-> "full",
                         total_price |-> 90, is_active |-> FALSE]]

\* Inputs of the callers.
CreditAmounts == {0, 5, 990, 400000}
CreditCalls == ({"bob"} \X CreditAmounts) \cup {<<"ghost", 990>>}
DurationInputs == {1, 12, 24, 168, 720, 2}
AwardAmounts == {100000, 100010, 100050}
AwardCalls == ({"bob"} \X AwardAmounts) \cup {<<"alice", 100010>>, <<"ghost", 100010>>}
GenerateCalls == ({"bob"} \X DurationInputs) \cup {<<"ghost", 1>>}
BundleCalls == (BundleIds \X {"bob"}) \cup {<<"pack", "alice">>, <<"pack", "ghost">>}
TokenStrings == 0..MaxTokens
IssuedStrings == 0..MaxIssued
TokenCalls == {<<"bob", 1, "full">>, <<"bob", 12, "certificates_only">>}
Devices == {"device-A", "device-B"}
TrackCall(t, d, ip) ==
    [user_id |-> "bob", token_id |-> t, device_id |-> d, ip_address |-> ip,
     user_agent |-> "agent", bytes_transferred |-> 1024]
TrackCalls == {TrackCall(1, "device-A", "10.0.0.1"), TrackCall(1, "device-B", "10.0.0.2"),
               TrackCall(2, "device-A", "10.0.0.1")}
Procs == {1, 2}

\* The instants the clock visits in the token model: the start, the second
\* before the first hour is over and the end of that hour.
Instants == {0, SecondsPerHour - 1, SecondsPerHour}

\* The instants the clock visits in the session model: the start, the idle
\* threshold and the second after it.
IdleThreshold == InactiveMinutes * SecondsPerMinute
SessionInstants == {0, IdleThreshold, IdleThreshold + 1}

\* Requests reaching the middleware: the class of the path, the identifier
\* _get_limit_config finds for it ("" for none) and request.state.user.is_superuser.
RateRequest(limit_type, identifier, is_superuser) ==
    [limit_type |-> limit_type, identifier |-> identifier, is_superuser |-> is_superuser]
RateRequests == {RateRequest("auth", "10.0.0.1", FALSE), RateRequest("api", "bob", FALSE),
                 RateRequest("proxy", "1", FALSE), RateRequest("api", "admin", TRUE),
                 RateRequest("api", "", FALSE)}
RateKeys == {<<r.limit_type, r.identifier>> : r \in RateRequests}

VARIABLES now, balance, referral_bonus_earned, txs, tokens, cache, sessions, pcs, ret, zset

vars == <<now, balance, referral_bonus_earned, txs, tokens, cache, sessions, pcs, ret, zset>>

(***************************************************************************)
(* Numeric helpers.                                                        *)
(***************************************************************************)
\* Storage that rounded half to even instead.
StoreNumericHalfEven(mills) ==
    LET q == mills \div 10
        r == mills % 10
    IN  IF r > 5 \/ (r = 5 /\ q % 2 = 1) THEN q + 1 ELSE q

\* PostgreSQL stores a value into NUMERIC(10,2) rounding half away from zero.
StoreNumeric(mills) ==
    IF mills >= 0 THEN (mills + 5) \div 10 ELSE -((5 - mills) \div 10)

\* Decimal.quantize(Decimal("0.01")) of num/den cents, ROUND_HALF_EVEN.
\* The value is q + r/den with 0 <= r < den.
QuantizeParts(q, r, den) ==
    IF 2 * r > den \/ (2 * r = den /\ q % 2 = 1) THEN q + 1 ELSE q

Quantize(num, den) == QuantizeParts(num \div den, num % den, den)

\* The transactions table is a bag of rows: the rows carry no order of their
\* own, and two rows may agree on every column the model keeps.
RECURSIVE SumRows(_, _)
SumRows(rows, log) ==
    IF rows = {} THEN 0
    ELSE LET r == CHOOSE x \in rows : TRUE
         IN  r.amount * CopiesIn(r, log) + SumRows(rows \ {r}, log)

\* Sum of the amounts of user u's transactions.
SumAmounts(log, u) == SumRows({r \in BagToSet(log) : r.user = u}, log)

AddRow(log, r) == log (+) SetToBag({r})

\* Settings.get_token_price: NULL for a duration outside the table.
get_token_price(d) ==
    CASE d = 1 -> TOKEN_PRICE_1H
      [] d = 12 -> TOKEN_PRICE_12H
      [] d = 24 -> TOKEN_PRICE_24H
      [] d = 168 -> TOKEN_PRICE_7D
      [] d = 720 -> TOKEN_PRICE_30D
      [] OTHER -> NULL

valid_durations == {1, 12, 24, 168, 720}

\* AccessToken.expires_at: activated_at + duration_hours, NULL before activation.
expires_at(tok) ==
    IF tok.activated_at = NULL THEN NULL
    ELSE tok.activated_at + tok.duration_hours * SecondsPerHour

(***************************************************************************)
(* Records.                                                                *)
(***************************************************************************)
NoClaims == [user_id |-> "", token_id |-> 0, expires_at |-> NULL,
             duration_hours |-> 0, scope |-> ""]

Call(op, u, t, arg, outcome, status, value, data, bal0) ==
    [op |-> op, user |-> u, tok |-> t, arg |-> arg, outcome |-> outcome,
     status |-> status, value |-> value, data |-> data, bal0 |-> bal0, row |-> 0]

\* A call that wrote a transaction row of the given amount.
CallRow(op, u, t, arg, outcome, status, value, data, bal0, row) ==
    [Call(op, u, t, arg, outcome, status, value, data, bal0) EXCEPT !.row = row]

NoCall == Call("", "", 0, 0, "", 0, 0, NoClaims, 0)

Transaction(u, amount, type, ref) ==
    [user |-> u, amount |-> amount, type |-> type, ref |-> ref]

AccessToken(u, d, scope) ==
    [user_id |-> u, duration_hours |-> d, scope |-> scope,
     activated_at |-> NULL, is_active |-> TRUE, revoked_at |-> NULL]

BalanceOf(u) == IF u \in Users THEN balance[u] ELSE 0

(***************************************************************************)
(* Token cache (Redis).  The key is sha256 of the token string; the token  *)
(* string of token i is unique, so the key is modelled by i.  Every cache  *)
(* helper swallows the exception of a failed Redis command; up tells       *)
(* whether the command of this call went through.                          *)
(***************************************************************************)
TokenClaims(i, tok) ==
    [user_id |-> tok.user_id, token_id |-> i, expires_at |-> expires_at(tok),
     duration_hours |-> tok.duration_hours, scope |-> tok.scope]

\* The time to live of an entry: what is left of the token's validity.
ttl(tok) == expires_at(tok) - now

\* A cache write whose entry counted the expiry from the time of caching.
cache_token_from_now(c, i, tok, up) ==
    IF tok.activated_at = NULL THEN c
    ELSE IF ttl(tok) > 0 /\ up
         THEN {e \in c : e.key # i} \cup
              {[key |-> i,
                data |-> [TokenClaims(i, tok) EXCEPT
                             !.expires_at = now + tok.duration_hours * SecondsPerHour],
                expire_at |-> now + ttl(tok)]}
         ELSE c

\* TokenService._cache_token: only activated tokens, only with a positive ttl;
\* SETEX makes Redis drop the key at expire_at.
cache_token(c, i, tok, up) ==
    IF tok.activated_at = NULL THEN c
    ELSE IF ttl(tok) > 0 /\ up
         THEN {e \in c : e.key # i} \cup
              {[key |-> i, data |-> TokenClaims(i, tok), expire_at |-> now + ttl(tok)]}
         ELSE c

\* A cache read whose failure is taken for an entry that has expired.
get_cached_token_stale_on_error(i, up) ==
    IF up THEN {e \in cache : e.key = i}
    ELSE {[key |-> i, data |-> NoClaims, expire_at |-> NULL]}

\* TokenService._get_cached_token: None when the key is absent or Redis raises.
get_cached_token(i, up) == IF up THEN {e \in cache : e.key = i} ELSE {}

\* A removal that left the entry in place.
remove_cached_token_skipped(c, i, up) == c

\* TokenService._remove_cached_token
remove_cached_token(c, i, up) == IF up THEN {e \in c : e.key # i} ELSE c

(***************************************************************************)
(* Credit ledger.                                                          *)
(***************************************************************************)
\* A credit that dropped the digits beyond the cent instead of rounding them.
CreditedBalanceTruncated(bal, amount) == bal + amount \div 10

\* user.currency_balance += amount, as stored.
CreditedBalance(bal, amount) == StoreNumeric(bal * 10 + amount)

credit_balance(u, amount) ==
    /\ IF amount <= 0
       THEN /\ ret' = Call("credit_balance", u, 0, amount, "Amount must be positive",
                           0, 0, NoClaims, BalanceOf(u))
            /\ UNCHANGED <<balance, txs>>
       ELSE IF u \notin Users
       THEN /\ ret' = Call("credit_balance", u, 0, amount, "User not found",
                           0, 0, NoClaims, 0)
            /\ UNCHANGED <<balance, txs>>
       ELSE /\ BagCardinality(txs) < MaxTx
            /\ balance' = [balance EXCEPT ![u] = CreditedBalance(balance[u], amount)]
            /\ txs' = AddRow(txs, Transaction(u, StoreNumeric(amount), "deposit", ""))
            /\ ret' = CallRow("credit_balance", u, 0, amount, "ok", 0,
                               balance'[u], NoClaims, balance[u], StoreNumeric(amount))
    /\ UNCHANGED <<now, referral_bonus_earned, tokens, cache, sessions, pcs, zset>>

\* The sub-bag of log made of the given rows.
BagOfRows(log, rows) == [r \in rows |-> CopiesIn(r, log)]

\* The referee's PURCHASE transactions with amount <= -100.00.
previous_purchases(log, referee) ==
    BagCardinality(BagOfRows(log, {r \in BagToSet(log) : /\ r.user = referee
                                                          /\ r.type = "purchase"
                                                          /\ r.amount <= -BonusThreshold}))

\* An award rule that let the second large purchase through as well.
BonusDueUpToSecond(log, referee, purchase_amount) ==
    /\ referee \in Users
    /\ referred_by_id(referee) # ""
    /\ ~(purchase_amount <= BonusThreshold * 10)
    /\ ~(previous_purchases(log, referee) > 2)
    /\ referred_by_id(referee) \in Users

\* Whether award_referral_bonus reaches the award for this call.
BonusDue(log, referee, purchase_amount) ==
    /\ referee \in Users
    /\ referred_by_id(referee) # ""
    /\ ~(purchase_amount <= BonusThreshold * 10)
    /\ ~(previous_purchases(log, referee) > 1)
    /\ referred_by_id(referee) \in Users

\* A bonus rounded half up instead.
bonus_amount_half_up(purchase_amount) == (purchase_amount + 50) \div 100

\* (purchase_amount * Decimal("0.10")).quantize(Decimal("0.01")), in cents.
bonus_amount(purchase_amount) == Quantize(purchase_amount, 100)

\* The ledger after award_referral_bonus(referee, purchase_amount) ran on it.
AfterAward(bal, earned, log, referee, purchase_amount) ==
    IF BonusDue(log, referee, purchase_amount)
    THEN LET referrer == referred_by_id(referee)
             bonus == bonus_amount(purchase_amount)
         IN  [balance |-> [bal EXCEPT ![referrer] = bal[referrer] + bonus],
              earned |-> [earned EXCEPT ![referrer] = earned[referrer] + bonus],
              txs |-> AddRow(log, Transaction(referrer, bonus, "referral_bonus", referee)),
              bonus |-> bonus]
    ELSE [balance |-> bal, earned |-> earned, txs |-> log, bonus |-> NULL]

award_referral_bonus(referee, purchase_amount) ==
    LET after == AfterAward(balance, referral_bonus_earned, txs, referee, purchase_amount)
    IN  /\ BagCardinality(after.txs) <= MaxTx
        /\ balance' = after.balance
        /\ referral_bonus_earned' = after.earned
        /\ txs' = after.txs
        /\ ret' = Call("award_referral_bonus", referee, 0, purchase_amount,
                       IF after.bonus = NULL THEN "none" ELSE "ok", 0,
                       after.bonus, NoClaims, BalanceOf(referee))
        /\ UNCHANGED <<now, tokens, cache, sessions, pcs, zset>>

(***************************************************************************)
(* Token lifecycle.                                                        *)
(***************************************************************************)
\* HTTP status of POST /tokens/purchase for an outcome of generate_access_token.
purchase_token_status(outcome) ==
    IF outcome = "ok" THEN 201
    ELSE IF outcome = "Insufficient balance" THEN 402 ELSE 400

\* A balance check that also refused a balance equal to the price.
InsufficientBalanceInclusive(bal, cost) == bal <= cost

\* The balance check of generate_access_token: the purchase is refused.
InsufficientBalance(bal, cost) == bal < cost

generate_access_token(u, d, scope) ==
    LET cost == get_token_price(d)
        fail(msg) == /\ ret' = Call("generate_access_token", u, 0, d, msg,
                                   purchase_token_status(msg), 0, NoClaims, BalanceOf(u))
                     /\ UNCHANGED <<balance, txs, tokens>>
    IN  /\ IF d \notin valid_durations \/ cost = NULL THEN fail("Invalid duration")
           ELSE IF u \notin Users THEN fail("User not found")
           ELSE IF InsufficientBalance(balance[u], cost) THEN fail("Insufficient balance")
           ELSE /\ Len(tokens) < MaxTokens
                /\ BagCardinality(txs) < MaxTx
                /\ tokens' = Append(tokens, AccessToken(u, d, scope))
                /\ balance' = [balance EXCEPT ![u] = balance[u] - cost]
                /\ txs' = AddRow(txs, Transaction(u, -cost, "purchase", ""))
                /\ ret' = CallRow("generate_access_token", u, Len(tokens) + 1, d, "ok",
                                   purchase_token_status("ok"), cost, NoClaims,
                                   balance[u], -cost)
        \* _cache_token(db_token) returns at once: the new token is not activated.
        /\ UNCHANGED <<now, referral_bonus_earned, cache, sessions, pcs, zset>>

\* A storage lookup by token string alone.
UsableIgnoringRevocation(t) == t \in 1..Len(tokens)

\* The storage lookup of validate_token and check_token_status.
Usable(t) ==
    /\ t \in 1..Len(tokens)
    /\ tokens[t].is_active
    /\ tokens[t].revoked_at = NULL

\* An activation write without the test for a first use.
ActivatedAlways(tok) == [tok EXCEPT !.activated_at = now]

\* The activation write of validate_token.
Activated(tok) ==
    IF tok.activated_at = NULL THEN [tok EXCEPT !.activated_at = now] ELSE tok

\* What validate_token answers and writes: the answer, the claims, the tokens
\* table and the cache after the call.
validated(t, get_up, del_up, set_up) ==
    LET hit == get_cached_token(t, get_up)
        fresh == {e \in hit : e.data.expires_at > now}
        c1 == IF hit # {} THEN remove_cached_token(cache, t, del_up) ELSE cache
        invalid == [valid |-> FALSE, data |-> NoClaims, tokens |-> tokens, cache |-> c1]
    IN  IF fresh # {}
        THEN [valid |-> TRUE, data |-> (CHOOSE e \in fresh : TRUE).data,
              tokens |-> tokens, cache |-> cache]
        ELSE IF ~Usable(t) THEN invalid
        ELSE IF tokens[t].activated_at # NULL /\ expires_at(tokens[t]) <= now THEN invalid
        ELSE LET tok == Activated(tokens[t])
             IN  [valid |-> TRUE, data |-> TokenClaims(t, tok),
                  tokens |-> [tokens EXCEPT ![t] = tok],
                  cache |-> cache_token(c1, t, tok, set_up)]

validate_token(t, get_up, del_up, set_up) ==
    \E v \in {validated(t, get_up, del_up, set_up)} :
        /\ ret' = Call("validate_token", "", t, 0, IF v.valid THEN "valid" ELSE "invalid",
                       0, 0, v.data, 0)
        /\ tokens' = v.tokens
        /\ cache' = v.cache
        /\ UNCHANGED <<now, balance, referral_bonus_earned, txs, sessions, pcs, zset>>

\* A status check that activates, as validate_token does.
check_token_status_activating(t, get_up) == validate_token(t, get_up, TRUE, TRUE)

\* What check_token_status answers; is_activated 1 is true.
checked(t, get_up) ==
    LET hit == get_cached_token(t, get_up)
        fresh == {e \in hit : e.data.expires_at > now}
        invalid == [valid |-> FALSE, is_activated |-> 0, data |-> NoClaims]
    IN  IF fresh # {}
        THEN [valid |-> TRUE, is_activated |-> 1, data |-> (CHOOSE e \in fresh : TRUE).data]
        ELSE IF hit # {} THEN invalid
        ELSE IF ~Usable(t) THEN invalid
        ELSE IF tokens[t].activated_at # NULL /\ expires_at(tokens[t]) <= now THEN invalid
        ELSE [valid |-> TRUE,
              is_activated |-> IF tokens[t].activated_at # NULL THEN 1 ELSE 0,
              data |-> TokenClaims(t, tokens[t])]

check_token_status(t, get_up) ==
    \E c \in {checked(t, get_up)} :
        /\ ret' = Call("check_token_status", "", t, 0, IF c.valid THEN "valid" ELSE "invalid",
                       0, c.is_activated, c.data, 0)
        /\ UNCHANGED <<now, balance, referral_bonus_earned, txs, tokens, cache, sessions, pcs, zset>>

\* HTTP status of DELETE /tokens/{id} for an outcome of revoke_token.
revoke_token_status(outcome) ==
    IF outcome = "ok" THEN 200
    ELSE IF outcome = "Token not found or already revoked" THEN 404 ELSE 400

\* A refund of the used share of the duration instead of the unused one.
refund_of_used_share(tok) ==
    LET duration == tok.duration_hours * SecondsPerHour
        time_used == IF tok.activated_at # NULL THEN now - tok.activated_at ELSE 0
        cost == IF get_token_price(tok.duration_hours) = NULL THEN 0
                ELSE get_token_price(tok.duration_hours)
    IN  IF time_used >= duration THEN cost ELSE Quantize(cost * time_used, duration)

\* refund_amount of revoke_token, in cents: the price times the unused share
\* of the duration, quantized to 0.01.
refund_amount(tok) ==
    LET duration == tok.duration_hours * SecondsPerHour
        time_used == IF tok.activated_at # NULL THEN now - tok.activated_at ELSE 0
        time_unused == IF duration - time_used > 0 THEN duration - time_used ELSE 0
        cost == IF get_token_price(tok.duration_hours) = NULL THEN 0
                ELSE get_token_price(tok.duration_hours)
        \* cost * time_unused / duration, as a whole part and a remainder
        \* (the product itself is too wide for a machine integer).
        spent == IF time_unused = 0 THEN 0 ELSE cost * (duration - time_unused)
        whole == cost - (spent \div duration) - (IF spent % duration = 0 THEN 0 ELSE 1)
        rest == IF spent % duration = 0 THEN 0 ELSE duration - (spent % duration)
    IN  IF time_unused = 0 THEN 0 ELSE QuantizeParts(whole, rest, duration)

\* The token row after a revoke.
Revoked(tok) == [tok EXCEPT !.is_active = FALSE, !.revoked_at = now]

revoke_token(t, u, del_up) ==
    IF ~(t \in 1..Len(tokens) /\ tokens[t].user_id = u /\ tokens[t].is_active)
    THEN /\ ret' = Call("revoke_token", u, t, 0, "Token not found or already revoked",
                        revoke_token_status("Token not found or already revoked"),
                        0, NoClaims, BalanceOf(u))
         /\ UNCHANGED <<now, balance, referral_bonus_earned, txs, tokens, cache, sessions, pcs, zset>>
    ELSE LET refund == refund_amount(tokens[t])
         IN  /\ refund > 0 => BagCardinality(txs) < MaxTx
             /\ tokens' = [tokens EXCEPT ![t] = Revoked(tokens[t])]
             /\ balance' = [balance EXCEPT ![u] = balance[u] + refund]
             /\ txs' = IF refund > 0 THEN AddRow(txs, Transaction(u, refund, "refund", ""))
                       ELSE txs
             /\ cache' = remove_cached_token(cache, t, del_up)
             /\ ret' = CallRow("revoke_token", u, t, 0, "ok", revoke_token_status("ok"),
                                refund, NoClaims, balance[u], refund)
             /\ UNCHANGED <<now, referral_bonus_earned, sessions, pcs, zset>>

\* DELETE /admin/tokens/{id}: revoke without refund, whatever the token's state.
force_revoke_token(t, del_up) ==
    /\ IF t \notin 1..Len(tokens)
       THEN /\ ret' = Call("force_revoke_token", "", t, 0, "Token not found", 404,
                           0, NoClaims, 0)
            /\ UNCHANGED <<tokens, cache>>
       ELSE /\ tokens' = [tokens EXCEPT ![t] = Revoked(tokens[t])]
            /\ cache' = remove_cached_token(cache, t, del_up)
            /\ ret' = Call("force_revoke_token", "", t, 0, "ok", 200, 0, NoClaims, 0)
    /\ UNCHANGED <<now, balance, referral_bonus_earned, txs, sessions, pcs, zset>>

\* Redis drops an entry once its ttl has run out.  The ttl is the remaining
\* validity at the time of caching, counted by the Redis host's clock, so an
\* entry can still be there when the application's clock has reached expires_at.
redis_expire ==
    /\ \E e \in cache : /\ e.expire_at <= now
                        /\ cache' = cache \ {e}
    /\ UNCHANGED <<now, balance, referral_bonus_earned, txs, tokens, sessions, pcs, ret, zset>>

(***************************************************************************)
(* Bundles.                                                                *)
(***************************************************************************)
\* TokenService.create_token_without_charge, token_count times: the tokens of
\* a bundle, added to the purchase's transaction.
RECURSIVE create_tokens_without_charge(_, _, _, _, _)
create_tokens_without_charge(toks, n, u, d, scope) ==
    IF n = 0 THEN toks
    ELSE create_tokens_without_charge(Append(toks, AccessToken(u, d, scope)), n - 1, u, d, scope)

\* What is committed of a purchase whose request ended in an error: get_db
\* closes the session, and the debit made in it is discarded.
rolled_back_keeping_debit(u, bundle) ==
    [balance EXCEPT ![u] = balance[u] - bundle.total_price]

rolled_back(u, bundle) == balance

\* A debit of the tokens' list prices.
DebitedPerToken(u, bundle) ==
    [balance EXCEPT ![u] = balance[u] - bundle.token_count * get_token_price(bundle.duration_hours)]

\* The debit of purchase_bundle.
Debited(u, bundle) == [balance EXCEPT ![u] = balance[u] - bundle.total_price]

\* issued: whether the issuance of the tokens goes through.
purchase_bundle(b, u, issued) ==
    LET fail(msg, status) ==
            /\ ret' = Call("purchase_bundle", u, 0, 0, msg, status, 0, NoClaims, BalanceOf(u))
            /\ UNCHANGED <<balance, referral_bonus_earned, txs, tokens>>
    IN  /\ IF b \notin DOMAIN Bundles \/ ~Bundles[b].is_active
           THEN fail("Bundle not found or inactive", 404)
           ELSE IF u \notin Users THEN fail("User not found", 404)
           ELSE IF balance[u] < Bundles[b].total_price
           THEN fail("Insufficient balance", 402)
           ELSE IF ~issued
           THEN /\ ret' = Call("purchase_bundle", u, 0, 0, "Internal Server Error", 500, 0,
                               NoClaims, BalanceOf(u))
                /\ balance' = rolled_back(u, Bundles[b])
                /\ UNCHANGED <<referral_bonus_earned, txs, tokens>>
           ELSE LET bundle == Bundles[b]
                    paid == Debited(u, bundle)
                    log == AddRow(txs, Transaction(u, -bundle.total_price, "purchase", ""))
                    after == AfterAward(paid, referral_bonus_earned, log, u,
                                        bundle.total_price * 10)
                IN  /\ Len(tokens) + bundle.token_count <= MaxTokens
                    /\ BagCardinality(after.txs) <= MaxTx
                    /\ tokens' = create_tokens_without_charge(tokens, bundle.token_count, u,
                                     bundle.duration_hours, bundle.scope)
                    /\ balance' = after.balance
                    /\ referral_bonus_earned' = after.earned
                    /\ txs' = after.txs
                    /\ ret' = CallRow("purchase_bundle", u, Len(tokens) + 1, 0, "ok", 200,
                                       paid[u], NoClaims, balance[u], -bundle.total_price)
        /\ UNCHANGED <<now, cache, sessions, pcs, zset>>

\* Redis may lose entries at any time (restart, eviction, FLUSHDB).
redis_flush ==
    /\ cache # {}
    /\ cache' = {}
    /\ UNCHANGED <<now, balance, referral_bonus_earned, txs, tokens, sessions, pcs, ret, zset>>

Tick ==
    /\ \E t \in Instants : t > now /\ now' = t
    /\ UNCHANGED <<balance, referral_bonus_earned, txs, tokens, cache, sessions, pcs, ret, zset>>

(***************************************************************************)
(* Proxy sessions.                                                         *)
(***************************************************************************)
\* The row of no session.
NoSession ==
    [user_id |-> "", token_id |-> 0, device_id |-> "", ip_address |-> "", user_agent |-> "",
     started_at |-> 0, last_activity |-> 0, ended_at |-> NULL, bytes_transferred |-> 0,
     request_count |-> 0, is_active |-> FALSE]

ProxySession(call) ==
    [user_id |-> call.user_id, token_id |-> call.token_id, device_id |-> call.device_id,
     ip_address |-> call.ip_address, user_agent |-> call.user_agent,
     started_at |-> now, last_activity |-> now, ended_at |-> NULL,
     bytes_transferred |-> call.bytes_transferred, request_count |-> 1,
     is_active |-> TRUE]

\* A lookup that also matched on the device.
active_session_of_device(call) ==
    {i \in 1..Len(sessions) : /\ sessions[i].token_id = call.token_id
                              /\ sessions[i].device_id = call.device_id
                              /\ sessions[i].is_active}

\* The rows the lookup of track_request matches: active sessions of the token,
\* whatever their device.
active_session(call) ==
    {i \in 1..Len(sessions) : /\ sessions[i].token_id = call.token_id
                              /\ sessions[i].is_active}

\* The same-device branch of track_request, applied to the row as it was read.
Touched(session, call) ==
    [session EXCEPT !.last_activity = now,
                    !.request_count = session.request_count + 1,
                    !.bytes_transferred = session.bytes_transferred + call.bytes_transferred,
                    !.ip_address = call.ip_address,
                    !.user_agent = call.user_agent]

\* The columns the same-device branch writes.
WriteTouched(row, touched) ==
    [row EXCEPT !.last_activity = touched.last_activity,
                !.request_count = touched.request_count,
                !.bytes_transferred = touched.bytes_transferred,
                !.ip_address = touched.ip_address,
                !.user_agent = touched.user_agent]

SessionCall(op, call, outcome, id) ==
    Call(op, call.user_id, call.token_id, 0, outcome, 0, id, NoClaims, 0)

\* A tracker that records the refused request on the session it found.
track_write_counting_refusals(call, i, seen) ==
    IF i = 0
    THEN /\ Len(sessions) < MaxSessions
         /\ sessions' = Append(sessions, ProxySession(call))
         /\ ret' = SessionCall("track_request", call, "ok", Len(sessions) + 1)
    ELSE /\ seen.request_count < MaxRequests
         /\ sessions' = [sessions EXCEPT ![i] = WriteTouched(sessions[i], Touched(seen, call))]
         /\ ret' = SessionCall("track_request", call,
                               IF seen.device_id # call.device_id
                               THEN "DeviceConflictError" ELSE "ok", i)

\* What track_request does once it has read row i (0: no active session).
track_write(call, i, seen) ==
    IF i = 0
    THEN /\ Len(sessions) < MaxSessions
         /\ sessions' = Append(sessions, ProxySession(call))
         /\ ret' = SessionCall("track_request", call, "ok", Len(sessions) + 1)
    ELSE IF seen.device_id # call.device_id
    THEN /\ sessions' = sessions
         /\ ret' = SessionCall("track_request", call, "DeviceConflictError", i)
    ELSE /\ seen.request_count < MaxRequests
         /\ sessions' = [sessions EXCEPT ![i] = WriteTouched(sessions[i], Touched(seen, call))]
         /\ ret' = SessionCall("track_request", call, "ok", i)

track_request(call) ==
    /\ IF active_session(call) = {}
       THEN track_write(call, 0, NoSession)
       ELSE \E i \in active_session(call) : track_write(call, i, sessions[i])
    /\ UNCHANGED <<now, balance, referral_bonus_earned, txs, tokens, cache, pcs, zset>>

\* A closing that leaves ended_at as it was.
ClosedWithoutEnd(session) == [session EXCEPT !.is_active = FALSE]

\* The writes that close a session.
Closed(session) == [session EXCEPT !.is_active = FALSE, !.ended_at = now]

close_session(id) ==
    /\ IF id \in 1..Len(sessions) /\ sessions[id].is_active
       THEN /\ sessions' = [sessions EXCEPT ![id] = Closed(sessions[id])]
            /\ ret' = Call("close_session", "", 0, id, "ok", 0, 1, NoClaims, 0)
       ELSE /\ sessions' = sessions
            /\ ret' = Call("close_session", "", 0, id, "ok", 0, 0, NoClaims, 0)
    /\ UNCHANGED <<now, balance, referral_bonus_earned, txs, tokens, cache, pcs, zset>>

\* A cutoff of inactive_minutes hours.
InactiveAfterHours(inactive_minutes) ==
    {i \in 1..Len(sessions) :
        /\ sessions[i].is_active
        /\ sessions[i].last_activity < now - inactive_minutes * SecondsPerHour}

\* The sessions cleanup_inactive_sessions selects.
Inactive(inactive_minutes) ==
    {i \in 1..Len(sessions) :
        /\ sessions[i].is_active
        /\ sessions[i].last_activity < now - inactive_minutes * SecondsPerMinute}

cleanup_inactive_sessions(inactive_minutes) ==
    /\ sessions' = [i \in 1..Len(sessions) |->
                       IF i \in Inactive(inactive_minutes) THEN Closed(sessions[i])
                       ELSE sessions[i]]
    /\ ret' = Call("cleanup_inactive_sessions", "", 0, inactive_minutes, "ok", 0,
                   Cardinality(Inactive(inactive_minutes)), NoClaims, 0)
    /\ UNCHANGED <<now, balance, referral_bonus_earned, txs, tokens, cache, pcs, zset>>

TickSession ==
    /\ \E t \in SessionInstants : t > now /\ now' = t
    /\ UNCHANGED <<balance, referral_bonus_earned, txs, tokens, cache, sessions, pcs, ret, zset>>

(***************************************************************************)
(* track_request run by concurrent requests: the SELECT and the commit of  *)
(* one call are separate steps, and another request's steps can fall       *)
(* between them.  proxy_sessions carries no constraint on (token_id) where *)
(* is_active, so every INSERT commits.                                     *)
(***************************************************************************)
NoTrackCall == [user_id |-> "", token_id |-> 0, device_id |-> "", ip_address |-> "",
                user_agent |-> "", bytes_transferred |-> 0]

\* A request: where it stands, the call it serves, the row its query returned
\* (seen_id 0 and empty: none).
Idle == [pc |-> "idle", call |-> NoTrackCall, seen_id |-> 0, seen |-> NoSession,
         empty |-> FALSE]

\* The query of track_request: the request remembers the row it read.
track_select(p, call) ==
    /\ pcs[p].pc \in {"idle", "done"}
    /\ IF active_session(call) = {}
       THEN pcs' = [pcs EXCEPT ![p] = [pc |-> "selected", call |-> call, seen_id |-> 0,
                                       seen |-> NoSession, empty |-> TRUE]]
       ELSE \E i \in active_session(call) :
                pcs' = [pcs EXCEPT ![p] = [pc |-> "selected", call |-> call, seen_id |-> i,
                                           seen |-> sessions[i], empty |-> FALSE]]
    /\ UNCHANGED <<now, balance, referral_bonus_earned, txs, tokens, cache, sessions, ret, zset>>

\* The rest of track_request: raise, or write and commit.
track_commit(p) ==
    /\ pcs[p].pc = "selected"
    /\ track_write(pcs[p].call, pcs[p].seen_id, pcs[p].seen)
    /\ pcs' = [pcs EXCEPT ![p] = [Idle EXCEPT !.pc = "done", !.call = pcs[p].call,
                                              !.empty = pcs[p].empty]]
    /\ UNCHANGED <<now, balance, referral_bonus_earned, txs, tokens, cache, zset>>

(***************************************************************************)
(* RateLimitMiddleware: a sliding window per key, kept in a Redis sorted   *)
(* set whose members are scored by the second of their request.  The       *)
(* members carry a random suffix and are distinct, so a set is the bag of  *)
(* its scores.                                                             *)
(***************************************************************************)
LIMITS == [auth |-> [requests |-> 5, window |-> 3600],
           api |-> [requests |-> 100, window |-> 60],
           proxy |-> [requests |-> 1000, window |-> 60]]

\* The instants the clock visits in the rate-limiter model: the start, and for
\* each window the second before it is over and its end.
RateInstants ==
    {0} \cup UNION {{LIMITS[c].window - 1, LIMITS[c].window} : c \in DOMAIN LIMITS}

NoKey == [members |-> EmptyBag, expire_at |-> NULL]

\* A removal that spares the members scored max itself.
zremrangebyscore_below(members, max) ==
    [s \in {x \in DOMAIN members : x >= max} |-> members[s]]

\* ZREMRANGEBYSCORE key 0 max: the members scored above max stay.
zremrangebyscore(members, max) ==
    [s \in {x \in DOMAIN members : x > max} |-> members[s]]

zcard(members) == BagCardinality(members)

\* ZRANGE key 0 0 WITHSCORES: the lowest score of a set that has members.
zrange_first(members) ==
    CHOOSE s \in DOMAIN members : \A x \in DOMAIN members : s <= x

Max(a, b) == IF a >= b THEN a ELSE b

\* _get_retry_after: current_time is the clock read again, after the request's
\* own read; the full window when the set is empty or Redis fails.
get_retry_after(members, limit_config, current_time, zrange_up) ==
    IF zrange_up /\ members # EmptyBag
    THEN Max(0, zrange_first(members) + limit_config.window - current_time)
    ELSE limit_config.window

RateDetail(limit_config, retry_after) ==
    [error |-> "rate_limit_exceeded", limit |-> limit_config.requests,
     window |-> limit_config.window, retry_after |-> retry_after]

\* A limiter that rejects the request when a Redis command raises.
on_redis_error_rejecting(request) ==
    Call("dispatch", request.identifier, 0, 0, "rate_limit_exceeded", 429, 0, NoClaims, 0)

\* except Exception: the error is logged and the request goes to the next handler.
on_redis_error(request) ==
    Call("dispatch", request.identifier, 0, 0, "fail open", 200, 0, NoClaims, 0)

\* The Redis command that raises when the request reaches it ("": none).
RedisFailures == {"", "zremrangebyscore", "zcard", "zadd", "expire", "zrange"}

\* dispatch: lag is the time between the clock read of dispatch and the one of
\* _get_retry_after; raises is the Redis command that fails.  What the caller
\* keeps of its requests is left to the specification that runs dispatch.
dispatch(request, lag, raises) ==
    LET key == <<request.limit_type, request.identifier>>
        pass_on(why) ==
            /\ ret' = Call("dispatch", request.identifier, 0, 0, why, 200, 0, NoClaims, 0)
            /\ UNCHANGED <<now, zset>>
    IN  /\ IF request.identifier = "" THEN pass_on("no identifier")
           ELSE IF request.is_superuser THEN pass_on("superuser")
           ELSE IF raises = "zremrangebyscore"
           THEN /\ ret' = on_redis_error(request)
                /\ UNCHANGED <<now, zset>>
           ELSE LET limit_config == LIMITS[request.limit_type]
                    current_time == now
                    window_start == current_time - limit_config.window
                    kept == zremrangebyscore(zset[key].members, window_start)
                    current_count == zcard(kept)
                IN  IF raises = "zcard"
                    THEN /\ ret' = on_redis_error(request)
                         /\ zset' = [zset EXCEPT ![key].members = kept]
                         /\ UNCHANGED now
                    ELSE IF current_count >= limit_config.requests
                    THEN /\ now' = now + lag
                         /\ zset' = [zset EXCEPT ![key].members = kept]
                         /\ ret' = Call("dispatch", request.identifier, 0, 0,
                                        "rate_limit_exceeded", 429, 0,
                                        RateDetail(limit_config,
                                            get_retry_after(kept, limit_config, now + lag,
                                                            raises # "zrange")), 0)
                    ELSE IF raises = "zadd"
                    THEN /\ ret' = on_redis_error(request)
                         /\ zset' = [zset EXCEPT ![key].members = kept]
                         /\ UNCHANGED now
                    ELSE IF raises = "expire"
                    THEN /\ ret' = on_redis_error(request)
                         /\ zset' = [zset EXCEPT ![key].members =
                                                     kept (+) SetToBag({current_time})]
                         /\ UNCHANGED now
                    ELSE /\ ret' = Call("dispatch", request.identifier, 0, 0, "admitted",
                                        200, 0, NoClaims, 0)
                         /\ zset' = [zset EXCEPT ![key] =
                                        [members |-> kept (+) SetToBag({current_time}),
                                         expire_at |-> current_time + limit_config.window]]
                         /\ UNCHANGED now
        /\ UNCHANGED <<balance, referral_bonus_earned, txs, tokens, cache, sessions>>

\* Redis drops a key whose time to live is over.
redis_expire_key(key) ==
    /\ zset[key].expire_at # NULL
    /\ now >= zset[key].expire_at
    /\ zset' = [zset EXCEPT ![key] = NoKey]
    /\ UNCHANGED <<now, balance, referral_bonus_earned, txs, tokens, cache, sessions, pcs, ret>>

\* Time passes in the rate-limiter model.
TickRate ==
    /\ \E t \in RateInstants : t > now /\ now' = t
    /\ UNCHANGED <<balance, referral_bonus_earned, txs, tokens, cache, sessions, pcs, ret, zset>>

(***************************************************************************)
(* The reverse proxy.  A header is a triple <<name, cookie name, value>>,  *)
(* the cookie name being "" for a header other than Cookie; a query        *)
(* parameter is a pair <<name, value>>; a path is split before its         *)
(* extension.  ret.data of a forwarded request is the request sent to the  *)
(* upstream.                                                               *)
(***************************************************************************)
\* The secret of the token stored at row t, and the row of a secret (0: none).
Secret(t) == "secret-" \o ToString(t)

TokenOf(secret) ==
    IF \E t \in 1..Len(tokens) : Secret(t) = secret
    THEN CHOOSE t \in 1..Len(tokens) : Secret(t) = secret
    ELSE 0

TokenId(t) == "token-id-" \o ToString(t)

ClientRequest(headers, query_params, path) ==
    [headers |-> headers, query_params |-> query_params, path |-> path]

Path(stem, suffix) == [stem |-> stem, suffix |-> suffix]

Accept == <<"accept", "", "text/html">>
XAccessToken(secret) == <<"x-access-token", "", secret>>
TokenCookie(secret) == <<"cookie", "zenzefi_access_token", secret>>
ThemeCookie == <<"cookie", "theme", "dark">>
XLocalUrl == <<"x-local-url", "", "https://127.0.0.1:61000">>
XDeviceId(device_id) == <<"x-device-id", "", device_id>>

HttpRequests ==
    {ClientRequest({Accept, XAccessToken("secret-1")}, {<<"page", "2">>}, Path("api/users", "")),
     ClientRequest({Accept, ThemeCookie, TokenCookie("secret-1")}, {}, Path("api/users", "")),
     ClientRequest({XLocalUrl, XAccessToken("secret-1"), TokenCookie("secret-1")}, {},
                   Path("", "")),
     ClientRequest({Accept}, {<<"token", "secret-1">>}, Path("", "")),
     ClientRequest({Accept}, {}, Path("api/users", "")),
     ClientRequest({XAccessToken("garbage")}, {}, Path("api/users", "")),
     ClientRequest({XDeviceId("device-A-0001"), XAccessToken("secret-1")}, {},
                   Path("api/users", "")),
     ClientRequest({XAccessToken("secret-1")}, {}, Path("static/app.js", ".map"))}

WebSocketRequests ==
    {ClientRequest({Accept}, {<<"token", "secret-1">>}, Path("ws/info", "")),
     ClientRequest({ThemeCookie, TokenCookie("secret-1")}, {}, Path("ws/info", "")),
     ClientRequest({Accept}, {}, Path("ws/info", ""))}

\* Whether the upstream's Basic-auth credentials are configured.
BasicAuthSettings == BOOLEAN

\* request.headers.get, request.cookies.get and request.query_params.get
\* ("": absent).
Header(request, name) ==
    IF \E h \in request.headers : h[1] = name /\ h[2] = ""
    THEN (CHOOSE h \in request.headers : h[1] = name /\ h[2] = "")[3]
    ELSE ""

Cookie(request, name) ==
    IF \E h \in request.headers : h[1] = "cookie" /\ h[2] = name
    THEN (CHOOSE h \in request.headers : h[1] = "cookie" /\ h[2] = name)[3]
    ELSE ""

QueryParam(request, name) ==
    IF \E q \in request.query_params : q[1] = name
    THEN (CHOOSE q \in request.query_params : q[1] = name)[2]
    ELSE ""

NoUpstream == [url |-> Path("", ""), headers |-> {}, params |-> {}]

\* A header copy that drops the Cookie header as well.
forwarded_headers_without_cookies(request) ==
    {h \in request.headers :
        h[1] \notin {"host", "x-access-token", "x-local-url", "content-length",
                     "transfer-encoding", "cookie"}}

\* The headers proxy_request copies from the client's request.
forwarded_headers(request) ==
    {h \in request.headers :
        h[1] \notin {"host", "x-access-token", "x-local-url", "content-length",
                     "transfer-encoding"}}

BasicAuth == <<"Authorization", "", "Basic credentials">>

\* The request proxy_request sends to the upstream.
proxy_request(request, user_id, token_id, basic_auth) ==
    LET copied == forwarded_headers(request)
        added == {<<"Host", "", "zenzefi">>, <<"X-Forwarded-For", "", "client">>,
                  <<"X-Forwarded-Proto", "", "https">>,
                  <<"X-Forwarded-Host", "", "backend">>,
                  <<"X-User-Id", "", user_id>>, <<"X-Token-Id", "", token_id>>}
        auth == IF basic_auth /\ ~(\E h \in copied : h[1] = "authorization")
                THEN {BasicAuth} ELSE {}
    IN  [url |-> request.path, headers |-> copied \cup added \cup auth,
         params |-> request.query_params]

\* The handshake proxy_websocket sends to the upstream.
proxy_websocket(request, user_id, token_id, basic_auth) ==
    [url |-> request.path,
     headers |-> (IF basic_auth THEN {BasicAuth} ELSE {})
                 \cup {<<"X-User-Id", "", user_id>>, <<"X-Token-Id", "", token_id>>},
     params |-> {}]

ProxyCall(op, outcome, status, t, upstream) ==
    Call(op, "", t, 0, outcome, status, 0, upstream, 0)

\* The catch-all HTTP route of the proxy.
proxy_to_zenzefi(request, basic_auth, get_up, del_up, set_up) ==
    LET op == "proxy_to_zenzefi"
        query_token == QueryParam(request, "token")
        access_token == IF Cookie(request, "zenzefi_access_token") # ""
                        THEN Cookie(request, "zenzefi_access_token")
                        ELSE Header(request, "x-access-token")
        t == TokenOf(access_token)
        v == validated(t, get_up, del_up, set_up)
        refuse(outcome, status) ==
            /\ ret' = ProxyCall(op, outcome, status, 0, NoUpstream)
            /\ UNCHANGED <<tokens, cache>>
    IN  /\ IF request.path.suffix = ".map"
           THEN refuse("Source maps not available through proxy", 404)
           ELSE IF query_token # ""
           THEN IF checked(TokenOf(query_token), get_up).valid
                THEN refuse("redirect", 303)
                ELSE refuse("Invalid or expired access token in query parameter", 401)
           ELSE IF access_token = ""
           THEN refuse("Authentication required", 401)
           ELSE /\ tokens' = v.tokens
                /\ cache' = v.cache
                /\ ret' = IF v.valid
                          THEN ProxyCall(op, "forwarded", 200, t,
                                         proxy_request(request, v.data.user_id, TokenId(t),
                                                       basic_auth))
                          ELSE ProxyCall(op, "Invalid or expired access token", 401, 0,
                                         NoUpstream)
        /\ UNCHANGED <<now, balance, referral_bonus_earned, txs, sessions, pcs, zset>>

\* The WebSocket route of the proxy.
websocket_proxy(request, basic_auth, get_up, del_up, set_up) ==
    LET op == "websocket_proxy"
        x_access_token == IF QueryParam(request, "token") # ""
                          THEN QueryParam(request, "token")
                          ELSE Cookie(request, "zenzefi_access_token")
        t == TokenOf(x_access_token)
        v == validated(t, get_up, del_up, set_up)
    IN  /\ IF x_access_token = ""
           THEN /\ ret' = ProxyCall(op, "Missing access token", 1008, 0, NoUpstream)
                /\ UNCHANGED <<tokens, cache>>
           ELSE /\ tokens' = v.tokens
                /\ cache' = v.cache
                /\ ret' = IF v.valid
                          THEN ProxyCall(op, "forwarded", 101, t,
                                         proxy_websocket(request, v.data.user_id, TokenId(t),
                                                         basic_auth))
                          ELSE ProxyCall(op, "Invalid or expired token", 1008, 0, NoUpstream)
        /\ UNCHANGED <<now, balance, referral_bonus_earned, txs, sessions, pcs, zset>>

(***************************************************************************)
(* The ledger under concurrent requests.  Each service method reads the    *)
(* user with SELECT ... FOR UPDATE: the statement waits while another      *)
(* transaction holds the row, returns the row as committed when the lock   *)
(* is granted, and the lock is held until the transaction commits or its   *)
(* session is closed.  A request is a process of pcs: waiting for the row, *)
(* locked (holding it, with the balance it read), committed (a bundle      *)
(* purchase before its referral bonus) or done.                            *)
(***************************************************************************)
LedgerCall(op, user, amount, duration_hours, bundle_id) ==
    [op |-> op, user |-> user, amount |-> amount, duration_hours |-> duration_hours,
     bundle_id |-> bundle_id]

LedgerCalls ==
    {LedgerCall("credit_balance", "bob", 10000, 0, ""),
     LedgerCall("credit_balance", "bob", 5, 0, ""),
     LedgerCall("credit_balance", "alice", 10000, 0, ""),
     LedgerCall("generate_access_token", "bob", 0, 24, ""),
     LedgerCall("generate_access_token", "bob", 0, 1, ""),
     LedgerCall("purchase_bundle", "bob", 0, 0, "solo")}

\* What bob holds when the requests arrive.
FundedBalances == {TOKEN_PRICE_24H, Bundles["solo"].total_price}

LedgerRequest(pc, call, snapshot, seen, waited, outcome) ==
    [pc |-> pc, call |-> call, snapshot |-> snapshot, seen |-> seen, waited |-> waited,
     outcome |-> outcome]

\* A lock that is never held.
row_locked_never(u) == FALSE

\* Whether a transaction holds the lock on the row of user u.
row_locked(u) == \E q \in Procs : pcs[q].pc = "locked" /\ pcs[q].call.user = u

\* The row as it was when the statement was issued.
for_update_row_as_of_start(p, u) == pcs[p].snapshot

\* The row SELECT ... FOR UPDATE returns to request p.
for_update_row(p, u) == balance[u]

\* The rows and tokens the requests in flight may still add.
Pending(kind) ==
    Cardinality({q \in Procs : pcs[q].pc \in {"waiting", "locked", "committed"}}) * kind

\* A request arrives and issues its SELECT ... FOR UPDATE.
ledger_select(p, call) ==
    /\ pcs[p].pc \in {"idle", "done"}
    /\ BagCardinality(txs) + Pending(2) + 2 <= MaxTx
    /\ Len(tokens) + Pending(1) + 1 <= MaxTokens
    /\ pcs' = [pcs EXCEPT ![p] = LedgerRequest("waiting", call, balance[call.user], 0,
                                               row_locked(call.user), "")]
    /\ UNCHANGED <<now, balance, referral_bonus_earned, txs, tokens, cache, sessions, ret, zset>>

\* The lock is granted and the row is read.
ledger_lock(p) ==
    /\ pcs[p].pc = "waiting"
    /\ ~row_locked(pcs[p].call.user)
    /\ pcs' = [pcs EXCEPT ![p] = [@ EXCEPT !.pc = "locked",
                                          !.seen = for_update_row(p, pcs[p].call.user)]]
    /\ UNCHANGED <<now, balance, referral_bonus_earned, txs, tokens, cache, sessions, ret, zset>>

\* The rest of the method up to its commit (or its error), computed on the row
\* the request read.
ledger_commit(p) ==
    LET call == pcs[p].call
        u == call.user
        seen == pcs[p].seen
        finish(pc, outcome, value, row) ==
            /\ pcs' = [pcs EXCEPT ![p] = [@ EXCEPT !.pc = pc, !.outcome = outcome]]
            /\ ret' = CallRow(call.op, u, 0, 0, outcome, 0, value, NoClaims, seen, row)
        refuse ==
            /\ finish("done", "Insufficient balance", 0, 0)
            /\ UNCHANGED <<balance, txs, tokens>>
    IN  /\ pcs[p].pc = "locked"
        /\ IF call.op = "credit_balance"
           THEN /\ balance' = [balance EXCEPT ![u] = CreditedBalance(seen, call.amount)]
                /\ txs' = AddRow(txs, Transaction(u, StoreNumeric(call.amount), "deposit", ""))
                /\ finish("done", "ok", CreditedBalance(seen, call.amount),
                          StoreNumeric(call.amount))
                /\ UNCHANGED tokens
           ELSE IF call.op = "generate_access_token"
           THEN LET cost == get_token_price(call.duration_hours)
                IN  IF InsufficientBalance(seen, cost) THEN refuse
                    ELSE /\ balance' = [balance EXCEPT ![u] = seen - cost]
                         /\ txs' = AddRow(txs, Transaction(u, -cost, "purchase", ""))
                         /\ tokens' = Append(tokens, AccessToken(u, call.duration_hours, "full"))
                         /\ finish("done", "ok", cost, -cost)
           ELSE LET bundle == Bundles[call.bundle_id]
                IN  IF seen < bundle.total_price THEN refuse
                    ELSE /\ balance' = [balance EXCEPT ![u] = seen - bundle.total_price]
                         /\ txs' = AddRow(txs, Transaction(u, -bundle.total_price,
                                                           "purchase", ""))
                         /\ tokens' = create_tokens_without_charge(tokens, bundle.token_count,
                                          u, bundle.duration_hours, bundle.scope)
                         /\ finish("committed", "ok", seen - bundle.total_price,
                                   -bundle.total_price)
        /\ UNCHANGED <<now, referral_bonus_earned, cache, sessions, zset>>

\* award_referral_bonus after the commit of a bundle purchase: it locks the
\* referrer's row when a bonus is due.
ledger_award(p) ==
    LET call == pcs[p].call
        after == AfterAward(balance, referral_bonus_earned, txs, call.user,
                            Bundles[call.bundle_id].total_price * 10)
    IN  /\ pcs[p].pc = "committed"
        /\ after.bonus # NULL => ~row_locked(referred_by_id(call.user))
        /\ balance' = after.balance
        /\ referral_bonus_earned' = after.earned
        /\ txs' = after.txs
        /\ pcs' = [pcs EXCEPT ![p] = [@ EXCEPT !.pc = "done"]]
        /\ UNCHANGED <<now, tokens, cache, sessions, ret, zset>>

(***************************************************************************)
(* Path permissions of token scopes.  A path is the sequence of the pieces *)
(* its text is cut into, so that a pattern "^..." matches a path exactly   *)
(* when the pattern's pieces are a prefix of the path's pieces.            *)
(***************************************************************************)
MaxPathLen == 3

PathPieces == {"/", "certificates/filter", "certificates/",
               "configurations/certificatesColumnOrder", "users/currentUser"}

Paths == UNION {[1..n -> PathPieces] : n \in 0..MaxPathLen}

\* The scopes of tokens and one scope no token has.
AskedScopes == Scopes \cup {"unknown_scope"}

SCOPE_PERMISSIONS ==
    [certificates_only |->
        {<<"certificates/filter">>,
         <<"certificates/details/">>,
         <<"certificates/export/">>,
         <<"certificates/import/">>,
         <<"certificates/remove">>,
         <<"certificates/restore">>,
         <<"certificates/activeForTesting">>,
         <<"certificates/activeForTesting", "/activate/">>,
         <<"certificates/activeForTesting", "/deactivate/">>,
         <<"certificates/activeForTesting", "/enhanced">>,
         <<"certificates/activeForTesting", "/options/">>,
         <<"certificates/activeForTesting", "/usecases/">>,
         <<"certificates/update/">>,
         <<"certificates/update/", "cancel">>,
         <<"certificates/update/", "metrics">>,
         <<"certificates/checkSystemIntegrityReport">>,
         <<"certificates/checkSystemIntegrityLog">>,
         <<"certificates/checkSystemIntegrityLog", "Existance">>,
         <<"configurations/certificatesColumnOrder">>,
         <<"configurations/certificatesColumnVisibility">>}]

\* re.match(pattern, path) of a pattern "^literal".
re_match(pattern, path) ==
    /\ Len(pattern) <= Len(path)
    /\ SubSeq(path, 1, Len(pattern)) = pattern

\* path.lstrip("/"): every leading slash is removed.
RECURSIVE lstrip(_)
lstrip(path) ==
    IF path # << >> /\ Head(path) = "/" THEN lstrip(Tail(path)) ELSE path

validate_path_access(path, scope) ==
    IF scope = "full" THEN TRUE
    ELSE IF scope \notin DOMAIN SCOPE_PERMISSIONS THEN FALSE
    ELSE \E pattern \in SCOPE_PERMISSIONS[scope] : re_match(pattern, lstrip(path))

\* A caller asks whether a path is allowed for a scope.
path_access(path, scope) ==
    /\ ret' = [op |-> "validate_path_access", path |-> path, scope |-> scope,
               allowed |-> validate_path_access(path, scope)]
    /\ UNCHANGED <<now, balance, referral_bonus_earned, txs, tokens, cache, sessions, pcs, zset>>

(***************************************************************************)
(* The mock payment provider.  A payment is a deposit transaction that     *)
(* carries the payment id and, in its description, the payment's state.    *)
(***************************************************************************)
MaxPayments == 2

\* The balance above which no further payment is completed.
MaxPaidBalance == 4000

PaymentAmounts == {10000, 25000}

PaymentId(n) == "MOCK_PAY_" \o ToString(n)

PaymentIds == {PaymentId(n) : n \in 1..(MaxPayments + 1)}

WebhookStatuses == {"succeeded", "canceled", "waiting_for_capture", ""}

Description(state) == "Balance top-up (" \o state \o ")"

PaymentTransaction(u, amount, description, payment_id) ==
    [user |-> u, amount |-> amount, type |-> "deposit", ref |-> "",
     description |-> description, payment_id |-> payment_id]

\* str.replace on a description: the state marker old becomes new when the
\* description carries it.
replace(description, old, new) ==
    IF description = Description(old) THEN Description(new) ELSE description

\* The transactions of a payment id.
PaymentRows(payment_id) ==
    {r \in BagToSet(txs) : "payment_id" \in DOMAIN r /\ r.payment_id = payment_id}

\* The transactions after row r got the description d.
Described(r, d) ==
    (txs (-) SetToBag({r})) (+) SetToBag({[r EXCEPT !.description = d]})

create_payment(amount_znc, u) ==
    LET payment_id == PaymentId(Cardinality({r \in BagToSet(txs) : "payment_id" \in DOMAIN r})
                                + 1)
    IN  /\ Cardinality({r \in BagToSet(txs) : "payment_id" \in DOMAIN r}) < MaxPayments
        /\ txs' = AddRow(txs, PaymentTransaction(u, StoreNumeric(amount_znc),
                                                 Description("pending"), payment_id))
        /\ ret' = CallRow("create_payment", u, 0, amount_znc, "pending", 200, 0, NoClaims,
                          balance[u], StoreNumeric(amount_znc))
        /\ UNCHANGED <<now, balance, referral_bonus_earned, tokens, cache, sessions, pcs, zset>>

simulate_payment_success(payment_id) ==
    LET op == "simulate_payment_success"
        answer(u, outcome, status) ==
            ret' = Call(op, u, 0, 0, outcome, status, 0, NoClaims, 0)
    IN  /\ IF PaymentRows(payment_id) = {}
           THEN /\ answer("", "Payment not found or already processed", 404)
                /\ UNCHANGED <<balance, txs>>
           ELSE LET transaction == CHOOSE r \in PaymentRows(payment_id) : TRUE
                    u == transaction.user
                IN  IF transaction.description = Description("succeeded")
                    THEN /\ answer(u, "ok", 200)
                         /\ UNCHANGED <<balance, txs>>
                    ELSE /\ balance[u] + transaction.amount <= MaxPaidBalance
                         /\ balance' = [balance EXCEPT ![u] = @ + transaction.amount]
                         /\ txs' = Described(transaction,
                                             replace(transaction.description, "pending",
                                                     "succeeded"))
                         /\ answer(u, "ok", 200)
        /\ UNCHANGED <<now, referral_bonus_earned, tokens, cache, sessions, pcs, zset>>

handle_webhook(payment_id, status) ==
    LET op == "handle_webhook"
        answer(u, processed) ==
            ret' = Call(op, u, 0, 0, processed, 200, 0, NoClaims, 0)
    IN  /\ IF payment_id = "" \/ status = "" \/ PaymentRows(payment_id) = {}
           THEN /\ answer("", "not processed")
                /\ UNCHANGED <<balance, txs>>
           ELSE LET transaction == CHOOSE r \in PaymentRows(payment_id) : TRUE
                    u == transaction.user
                IN  IF status = "succeeded"
                    THEN /\ balance[u] + transaction.amount <= MaxPaidBalance
                         /\ balance' = [balance EXCEPT ![u] = @ + transaction.amount]
                         /\ txs' = Described(transaction,
                                             replace(transaction.description, "pending",
                                                     "succeeded"))
                         /\ answer(u, "processed")
                    ELSE IF status = "canceled"
                    THEN /\ txs' = Described(transaction,
                                             replace(transaction.description, "pending",
                                                     "canceled"))
                         /\ answer(u, "not processed")
                         /\ UNCHANGED balance
                    ELSE /\ answer(u, "not processed")
                         /\ UNCHANGED <<balance, txs>>
        /\ UNCHANGED <<now, referral_bonus_earned, tokens, cache, sessions, pcs, zset>>

(***************************************************************************)
(* The token lifecycle under concurrent requests.  validate_token reads    *)
(* the cache, reads the token row without a lock, writes the activation    *)
(* and commits, re-reads the row and writes the cache; revoke_token locks  *)
(* the row, commits the revocation with the refund and then deletes the    *)
(* cache entry.  Between two of these steps other requests run.            *)
(***************************************************************************)
NoRow == [AccessToken("", 0, "") EXCEPT !.is_active = FALSE]

TokenRequest(pc, op, t, u, seen) ==
    [pc |-> pc, op |-> op, tok |-> t, user |-> u, seen |-> seen, first |-> FALSE,
     data |-> NoClaims, outcome |-> "", overlapped |-> FALSE, late |-> FALSE,
     deleted |-> FALSE]

\* A row lock that is never held.
token_locked_never(t) == FALSE

\* Whether a revoke_token holds the lock on the row of token t.
token_locked(t) == \E q \in Procs : pcs[q].pc = "holding" /\ pcs[q].tok = t

\* A cache delete of revoke_token that is never made.
uncached_never(t, del_up) == cache

\* Step 6 of revoke_token: the entry of the token is removed from the cache.
uncached(t, del_up) == remove_cached_token(cache, t, del_up)

\* A request ends: what it answered is the last observation.
Answer(p, outcome, data) ==
    ret' = Call(pcs[p].op, pcs[p].user, pcs[p].tok, 0, outcome, 0, 0, data, 0)

\* validate_token, the fast path: the cache is read, and an expired entry removed.
validate_get(p, t, get_up, del_up) ==
    LET hit == get_cached_token(t, get_up)
        fresh == {e \in hit : e.data.expires_at > now}
        call == TokenRequest("missed", "validate_token", t, "", NoRow)
    IN  /\ pcs[p].pc \in {"idle", "done"}
        /\ IF fresh # {}
           THEN \E e \in fresh :
                    /\ pcs' = [pcs EXCEPT ![p] = [call EXCEPT !.pc = "done", !.outcome = "valid",
                                                              !.data = e.data]]
                    /\ ret' = Call("validate_token", "", t, 0, "valid", 0, 0, e.data, 0)
                    /\ UNCHANGED cache
           ELSE /\ pcs' = [pcs EXCEPT ![p] = call]
                /\ cache' = IF hit # {} THEN remove_cached_token(cache, t, del_up) ELSE cache
                /\ UNCHANGED ret
        /\ UNCHANGED <<now, balance, referral_bonus_earned, txs, tokens, sessions, zset>>

\* validate_token, the slow path: the row is read, without a lock.
validate_select(p) ==
    LET t == pcs[p].tok
        refuse ==
            /\ pcs' = [pcs EXCEPT ![p] = [@ EXCEPT !.pc = "done", !.outcome = "invalid"]]
            /\ Answer(p, "invalid", NoClaims)
    IN  /\ pcs[p].pc = "missed"
        /\ IF ~Usable(t) THEN refuse
           ELSE IF tokens[t].activated_at # NULL /\ expires_at(tokens[t]) <= now THEN refuse
           ELSE /\ pcs' = [pcs EXCEPT ![p] =
                             [@ EXCEPT !.pc = IF tokens[t].activated_at = NULL
                                              THEN "selected" ELSE "refreshed",
                                       !.seen = tokens[t],
                                       !.first = tokens[t].activated_at = NULL]]
                /\ UNCHANGED ret
        /\ UNCHANGED <<now, balance, referral_bonus_earned, txs, tokens, cache, sessions, zset>>

\* validate_token on a row it read as not activated: activated_at is written
\* and committed.  The UPDATE waits for a revoke_token that holds the row.
validate_activate(p) ==
    LET t == pcs[p].tok
    IN  /\ pcs[p].pc = "selected"
        /\ ~token_locked(t)
        /\ tokens' = [tokens EXCEPT ![t].activated_at = now]
        /\ pcs' = [pcs EXCEPT ![p] = [@ EXCEPT !.pc = "activated"]]
        /\ UNCHANGED <<now, balance, referral_bonus_earned, txs, cache, sessions, ret, zset>>

\* db.refresh(db_token): the row is read again.
validate_refresh(p) ==
    /\ pcs[p].pc = "activated"
    /\ pcs' = [pcs EXCEPT ![p] = [@ EXCEPT !.pc = "refreshed", !.seen = tokens[pcs[p].tok]]]
    /\ UNCHANGED <<now, balance, referral_bonus_earned, txs, tokens, cache, sessions, ret, zset>>

\* _cache_token(db_token) and the answer of validate_token.
validate_cache(p, set_up) ==
    LET t == pcs[p].tok
        tok == pcs[p].seen
    IN  /\ pcs[p].pc = "refreshed"
        /\ cache' = cache_token(cache, t, tok, set_up)
        /\ pcs' = [pcs EXCEPT ![p] =
                      [@ EXCEPT !.pc = "done", !.outcome = "valid",
                                !.data = TokenClaims(t, tok),
                                !.late = /\ tokens[t].revoked_at # NULL
                                         /\ cache_token(cache, t, tok, set_up) # cache]]
        /\ Answer(p, "valid", TokenClaims(t, tok))
        /\ UNCHANGED <<now, balance, referral_bonus_earned, txs, tokens, sessions, zset>>

\* revoke_token, step 1: the token row is read with SELECT ... FOR UPDATE, which
\* waits for the transaction holding the row and returns the row as committed,
\* if it still is the caller's and active.
revoke_lock(p, t, u) ==
    LET call == TokenRequest("holding", "revoke_token", t, u, NoRow)
    IN  /\ pcs[p].pc \in {"idle", "done"}
        /\ t \in 1..Len(tokens) => ~token_locked(t)
        /\ IF ~(t \in 1..Len(tokens) /\ tokens[t].user_id = u /\ tokens[t].is_active)
           THEN /\ pcs' = [pcs EXCEPT ![p] = Idle]
                /\ ret' = Call("revoke_token", u, t, 0, "Token not found or already revoked",
                               revoke_token_status("Token not found or already revoked"),
                               0, NoClaims, BalanceOf(u))
           ELSE /\ pcs' = [pcs EXCEPT ![p] = [call EXCEPT !.seen = tokens[t]]]
                /\ UNCHANGED ret
        /\ UNCHANGED <<now, balance, referral_bonus_earned, txs, tokens, cache, sessions, zset>>

\* revoke_token, steps 2 to 5: the refund is computed on the row read, the
\* revocation and the refund are written and committed.
revoke_commit(p) ==
    LET t == pcs[p].tok
        u == pcs[p].user
        refund == refund_amount(pcs[p].seen)
        in_flight(q) == /\ q # p
                        /\ pcs[q].pc \in {"missed", "selected", "activated", "refreshed"}
                        /\ pcs[q].tok = t
    IN  /\ pcs[p].pc = "holding"
        /\ refund > 0 => BagCardinality(txs) < MaxTx
        /\ tokens' = [tokens EXCEPT ![t] = Revoked(tokens[t])]
        /\ balance' = [balance EXCEPT ![u] = balance[u] + refund]
        /\ txs' = IF refund > 0
                  THEN AddRow(txs, Transaction(u, refund, "refund", ""))
                  ELSE txs
        /\ pcs' = [q \in Procs |->
                     IF q = p THEN [pcs[p] EXCEPT !.pc = "revoked"]
                     ELSE IF in_flight(q) THEN [pcs[q] EXCEPT !.overlapped = TRUE]
                     ELSE pcs[q]]
        /\ UNCHANGED <<now, referral_bonus_earned, cache, sessions, ret, zset>>

\* revoke_token after its commit: the cache entry is removed, the call returns.
revoke_uncache(p, del_up) ==
    /\ pcs[p].pc = "revoked"
    /\ cache' = uncached(pcs[p].tok, del_up)
    /\ pcs' = [pcs EXCEPT ![p] = [@ EXCEPT !.pc = "done", !.outcome = "ok",
                                            !.deleted = del_up]]
    /\ ret' = Call("revoke_token", pcs[p].user, pcs[p].tok, 0, "ok",
                   revoke_token_status("ok"), 0, NoClaims, 0)
    /\ UNCHANGED <<now, balance, referral_bonus_earned, txs, tokens, sessions, zset>>

\* DELETE /admin/tokens/{id}: the token row is read by its id, without a lock.
force_select(p, t) ==
    LET call == TokenRequest("forcing", "force_revoke_token", t, "", NoRow)
    IN  /\ pcs[p].pc \in {"idle", "done"}
        /\ IF t \notin 1..Len(tokens)
           THEN /\ pcs' = [pcs EXCEPT ![p] = Idle]
                /\ ret' = Call("force_revoke_token", "", t, 0, "Token not found", 404,
                               0, NoClaims, 0)
           ELSE /\ pcs' = [pcs EXCEPT ![p] = [call EXCEPT !.seen = tokens[t]]]
                /\ UNCHANGED ret
        /\ UNCHANGED <<now, balance, referral_bonus_earned, txs, tokens, cache, sessions, zset>>

\* The force revoke writes is_active and revoked_at and commits; its UPDATE
\* waits for a revoke_token that holds the row.
force_commit(p) ==
    LET t == pcs[p].tok
    IN  /\ pcs[p].pc = "forcing"
        /\ ~token_locked(t)
        /\ tokens' = [tokens EXCEPT ![t] = Revoked(tokens[t])]
        /\ pcs' = [pcs EXCEPT ![p] = [@ EXCEPT !.pc = "forced"]]
        /\ UNCHANGED <<now, balance, referral_bonus_earned, txs, cache, sessions, ret, zset>>

\* The force revoke removes the cache entry and answers.
force_uncache(p, del_up) ==
    /\ pcs[p].pc = "forced"
    /\ cache' = remove_cached_token(cache, pcs[p].tok, del_up)
    /\ pcs' = [pcs EXCEPT ![p] = [@ EXCEPT !.pc = "done", !.outcome = "ok",
                                            !.deleted = del_up]]
    /\ ret' = Call("force_revoke_token", "", pcs[p].tok, 0, "ok", 200, 0, NoClaims, 0)
    /\ UNCHANGED <<now, balance, referral_bonus_earned, txs, tokens, sessions, zset>>

(***************************************************************************)
(* Specifications.                                                         *)
(***************************************************************************)
Init ==
    /\ now = 0
    /\ balance = [u \in Users |-> 0]
    /\ referral_bonus_earned = [u \in Users |-> 0]
    /\ txs = EmptyBag
    /\ tokens = << >>
    /\ cache = {}
    /\ sessions = << >>
    /\ pcs = [p \in Procs |-> Idle]
    /\ ret = NoCall
    /\ zset = [k \in RateKeys |-> NoKey]

\* The ledger: the five balance-changing operations of the services.
Next ==
    \/ \E c \in CreditCalls : credit_balance(c[1], c[2])
    \/ \E c \in AwardCalls : award_referral_bonus(c[1], c[2])
    \/ \E c \in GenerateCalls : generate_access_token(c[1], c[2], "full")
    \/ \E t \in TokenStrings, u \in Users : revoke_token(t, u, TRUE)
    \/ \E c \in BundleCalls, issued \in BOOLEAN : purchase_bundle(c[1], c[2], issued)

Spec == Init /\ [][Next]_vars

\* The ledger as the application drives it: award_referral_bonus runs only
\* inside a purchase.
NextApp ==
    \/ \E c \in CreditCalls : credit_balance(c[1], c[2])
    \/ \E c \in GenerateCalls : generate_access_token(c[1], c[2], "full")
    \/ \E t \in TokenStrings, u \in Users : revoke_token(t, u, TRUE)
    \/ \E c \in BundleCalls, issued \in BOOLEAN : purchase_bundle(c[1], c[2], issued)

SpecApp == Init /\ [][NextApp]_vars

\* The token lifecycle, from a ledger where bob has deposited 11.00.
InitToken ==
    /\ now = 0
    /\ balance = [u \in Users |-> IF u = "bob" THEN 1100 ELSE 0]
    /\ referral_bonus_earned = [u \in Users |-> 0]
    /\ txs = SetToBag({Transaction("bob", 1100, "deposit", "")})
    /\ tokens = << >>
    /\ cache = {}
    /\ sessions = << >>
    /\ pcs = [p \in Procs |-> Idle]
    /\ ret = NoCall
    /\ zset = [k \in RateKeys |-> NoKey]

NextToken ==
    \/ \E c \in TokenCalls : Len(tokens) < MaxIssued /\ generate_access_token(c[1], c[2], c[3])
    \/ \E t \in IssuedStrings, get_up, del_up, set_up \in BOOLEAN :
           validate_token(t, get_up, del_up, set_up)
    \/ \E t \in IssuedStrings, get_up \in BOOLEAN : check_token_status(t, get_up)
    \/ \E t \in IssuedStrings, u \in Users, del_up \in BOOLEAN : revoke_token(t, u, del_up)
    \/ \E t \in IssuedStrings, del_up \in BOOLEAN : force_revoke_token(t, del_up)
    \/ redis_expire
    \/ redis_flush
    \/ Tick

SpecToken == InitToken /\ [][NextToken]_vars

\* The session tracker, its operations run one at a time.
NextSession ==
    \/ \E call \in TrackCalls : track_request(call)
    \/ \E id \in 1..MaxSessions : close_session(id)
    \/ cleanup_inactive_sessions(InactiveMinutes)
    \/ TickSession

SpecSession == Init /\ [][NextSession]_vars

\* The session tracker under concurrent requests.
NextSessionRace ==
    \/ \E p \in Procs, call \in TrackCalls : track_select(p, call)
    \/ \E p \in Procs : track_commit(p)

SpecSessionRace == Init /\ [][NextSessionRace]_vars

\* The rate limiter.  One key is exercised at a time, and at most
\* MaxLateRequests members scored after the start are kept, so that the
\* windows of 100 and 1000 requests stay explorable; the clock is read a
\* second late only at the instants the model visits.
LateMembers(key) ==
    BagCardinality([s \in {x \in DOMAIN zset[key].members : x > 0} |-> zset[key].members[s]])

NextRate ==
    \/ \E request \in RateRequests, lag \in {0, 1}, raises \in RedisFailures :
           /\ \A k \in RateKeys \ {<<request.limit_type, request.identifier>>} :
                  zset[k] = NoKey
           /\ LateMembers(<<request.limit_type, request.identifier>>) < MaxLateRequests
           /\ lag = 1 => now \in RateInstants
           /\ dispatch(request, lag, raises)
           /\ UNCHANGED pcs
    \/ \E key \in RateKeys : redis_expire_key(key)
    \/ TickRate

SpecRate == Init /\ [][NextRate]_vars

\* The proxy routes, over the tokens bob buys.
NextProxy ==
    \/ \E c \in TokenCalls : Len(tokens) < MaxIssued /\ generate_access_token(c[1], c[2], c[3])
    \/ \E request \in HttpRequests, basic_auth \in BasicAuthSettings,
          get_up, del_up, set_up \in BOOLEAN :
           proxy_to_zenzefi(request, basic_auth, get_up, del_up, set_up)
    \/ \E request \in WebSocketRequests, basic_auth \in BasicAuthSettings,
          get_up, del_up, set_up \in BOOLEAN :
           websocket_proxy(request, basic_auth, get_up, del_up, set_up)
    \/ \E t \in IssuedStrings, u \in Users : revoke_token(t, u, TRUE)
    \/ Tick

SpecProxy == InitToken /\ [][NextProxy]_vars

\* The ledger under concurrent requests, bob holding the price of one purchase.
InitLedgerRace ==
    /\ now = 0
    /\ \E funded \in FundedBalances :
           /\ balance = [u \in Users |-> IF u = "bob" THEN funded ELSE 0]
           /\ txs = SetToBag({Transaction("bob", funded, "deposit", "")})
    /\ referral_bonus_earned = [u \in Users |-> 0]
    /\ tokens = << >>
    /\ cache = {}
    /\ sessions = << >>
    /\ pcs = [p \in Procs |-> Idle]
    /\ ret = NoCall
    /\ zset = [k \in RateKeys |-> NoKey]

NextLedgerRace ==
    \/ \E p \in Procs, call \in LedgerCalls : ledger_select(p, call)
    \/ \E p \in Procs : ledger_lock(p)
    \/ \E p \in Procs : ledger_commit(p)
    \/ \E p \in Procs : ledger_award(p)

SpecLedgerRace == InitLedgerRace /\ [][NextLedgerRace]_vars

\* The path permissions, asked for every path and scope.
NextPermissions == \E path \in Paths, scope \in AskedScopes : path_access(path, scope)

SpecPermissions == Init /\ [][NextPermissions]_vars

\* The payments of the mock provider.
NextPayment ==
    \/ \E amount_znc \in PaymentAmounts, u \in Users : create_payment(amount_znc, u)
    \/ \E payment_id \in PaymentIds : simulate_payment_success(payment_id)
    \/ \E payment_id \in PaymentIds \cup {""}, status \in WebhookStatuses :
           handle_webhook(payment_id, status)

SpecPayment == Init /\ [][NextPayment]_vars

\* The token lifecycle under concurrent requests: bob holds one token of an
\* hour, not yet activated.
InitTokenRace ==
    /\ now = 0
    /\ balance = [u \in Users |-> IF u = "bob" THEN 1100 - TOKEN_PRICE_1H ELSE 0]
    /\ referral_bonus_earned = [u \in Users |-> 0]
    /\ txs = SetToBag({Transaction("bob", 1100, "deposit", ""),
                       Transaction("bob", -TOKEN_PRICE_1H, "purchase", "")})
    /\ tokens = <<AccessToken("bob", 1, "full")>>
    /\ cache = {}
    /\ sessions = << >>
    /\ pcs = [p \in Procs |-> Idle]
    /\ ret = NoCall
    /\ zset = [k \in RateKeys |-> NoKey]

NextTokenRace ==
    \/ \E p \in Procs, get_up, del_up \in BOOLEAN : validate_get(p, 1, get_up, del_up)
    \/ \E p \in Procs : validate_select(p)
    \/ \E p \in Procs : validate_activate(p)
    \/ \E p \in Procs : validate_refresh(p)
    \/ \E p \in Procs, set_up \in BOOLEAN : validate_cache(p, set_up)
    \/ \E p \in Procs : revoke_lock(p, 1, "bob")
    \/ \E p \in Procs : revoke_commit(p)
    \/ \E p \in Procs, del_up \in BOOLEAN : revoke_uncache(p, del_up)
    \/ redis_expire
    \/ Tick

SpecTokenRace == InitTokenRace /\ [][NextTokenRace]_vars

\* The token ids asked for: the issued token and one that does not exist.
RaceTokens == {1, 2}

\* Concurrent revocations of one token, by its owner, by another user and by
\* an administrator, with cache hits in between.
NextRevokeRace ==
    \/ \E p \in Procs, t \in RaceTokens, u \in Users : revoke_lock(p, t, u)
    \/ \E p \in Procs : revoke_commit(p)
    \/ \E p \in Procs, del_up \in BOOLEAN : revoke_uncache(p, del_up)
    \/ \E p \in Procs, t \in RaceTokens : force_select(p, t)
    \/ \E p \in Procs : force_commit(p)
    \/ \E p \in Procs, del_up \in BOOLEAN : force_uncache(p, del_up)
    \/ Tick

SpecRevokeRace == InitTokenRace /\ [][NextRevokeRace]_vars

(***************************************************************************)
(* The rate limiter under concurrent requests.  The window lives in the    *)
(* shared Redis; dispatch sends its commands one by one, so the commands   *)
(* of requests served by different workers interleave.                     *)
(***************************************************************************)
RateCall(pc, request, current_time, current_count) ==
    [pc |-> pc, request |-> request, current_time |-> current_time,
     current_count |-> current_count]

RateKeyOf(request) == <<request.limit_type, request.identifier>>

\* dispatch up to ZREMRANGEBYSCORE: the clock is read and the old members go.
rate_prune(p, request) ==
    LET key == RateKeyOf(request)
        window_start == now - LIMITS[request.limit_type].window
    IN  /\ pcs[p].pc \in {"idle", "done"}
        /\ request.identifier # "" /\ ~request.is_superuser
        /\ zset' = [zset EXCEPT ![key].members = zremrangebyscore(@, window_start)]
        /\ pcs' = [pcs EXCEPT ![p] = RateCall("pruned", request, now, 0)]
        /\ UNCHANGED <<now, balance, referral_bonus_earned, txs, tokens, cache, sessions, ret>>

\* ZCARD and the comparison with the limit: the request is rejected or goes on.
rate_count(p) ==
    LET request == pcs[p].request
        key == RateKeyOf(request)
        limit_config == LIMITS[request.limit_type]
        current_count == zcard(zset[key].members)
    IN  /\ pcs[p].pc = "pruned"
        /\ IF current_count >= limit_config.requests
           THEN /\ pcs' = [pcs EXCEPT ![p] = [@ EXCEPT !.pc = "done",
                                                       !.current_count = current_count]]
                /\ ret' = Call("dispatch", request.identifier, 0, 0, "rate_limit_exceeded",
                               429, 0,
                               RateDetail(limit_config,
                                          get_retry_after(zset[key].members, limit_config,
                                                          now, TRUE)), 0)
           ELSE /\ pcs' = [pcs EXCEPT ![p] = [@ EXCEPT !.pc = "counted",
                                                       !.current_count = current_count]]
                /\ UNCHANGED ret
        /\ UNCHANGED <<now, balance, referral_bonus_earned, txs, tokens, cache, sessions, zset>>

\* ZADD and EXPIRE: the request enters the window under the time it read.
rate_add(p) ==
    LET request == pcs[p].request
        key == RateKeyOf(request)
    IN  /\ pcs[p].pc = "counted"
        /\ zset' = [zset EXCEPT ![key] =
                      [members |-> zset[key].members (+) SetToBag({pcs[p].current_time}),
                       expire_at |-> now + LIMITS[request.limit_type].window]]
        /\ pcs' = [pcs EXCEPT ![p] = [@ EXCEPT !.pc = "done"]]
        /\ ret' = Call("dispatch", request.identifier, 0, 0, "admitted", 200, 0, NoClaims, 0)
        /\ UNCHANGED <<now, balance, referral_bonus_earned, txs, tokens, cache, sessions>>

\* Concurrent login attempts from one address.
NextRateRace ==
    \/ \E p \in Procs : rate_prune(p, RateRequest("auth", "10.0.0.1", FALSE))
    \/ \E p \in Procs : rate_count(p)
    \/ \E p \in Procs : rate_add(p)
    \/ \E key \in RateKeys : redis_expire_key(key)
    \/ TickRate

SpecRateRace == Init /\ [][NextRateRace]_vars

(***************************************************************************)
(* Callers of one address that keep to retry_after: pcs[p] is what caller  *)
(* p remembers of its last request, the time a rejection told it to wait   *)
(* for (due) and whether the request it made next came at that time or     *)
(* later with no other request of the address in between (waited).  The   *)
(* clock is read a second late only at the instants the model visits.      *)
(***************************************************************************)
Caller(pc, due, waited) == [pc |-> pc, due |-> due, waited |-> waited]

LoginRequest == RateRequest("auth", "10.0.0.1", FALSE)

\* Caller p sends a login request and keeps the answer; what the other
\* callers were told before this request no longer stands.
retry(p, lag, raises) ==
    /\ dispatch(LoginRequest, lag, raises)
    /\ pcs' = [q \in Procs |->
                 IF q # p THEN Caller("idle", 0, FALSE)
                 ELSE IF ret'.status = 429
                      THEN Caller("rejected", now' + ret'.data.retry_after, FALSE)
                      ELSE Caller("passed", 0,
                                  pcs[p].pc = "rejected" /\ now >= pcs[p].due)]

InitRetry ==
    /\ now = 0
    /\ balance = [u \in Users |-> 0]
    /\ referral_bonus_earned = [u \in Users |-> 0]
    /\ txs = EmptyBag
    /\ tokens = << >>
    /\ cache = {}
    /\ sessions = << >>
    /\ pcs = [p \in Procs |-> Caller("idle", 0, FALSE)]
    /\ ret = NoCall
    /\ zset = [k \in RateKeys |-> NoKey]

NextRetry ==
    \/ \E p \in Procs, lag \in {0, 1}, raises \in RedisFailures :
           /\ LateMembers(RateKeyOf(LoginRequest)) < MaxLateRequests
           /\ lag = 1 => now \in RateInstants
           /\ retry(p, lag, raises)
    \/ \E key \in RateKeys : redis_expire_key(key)
    \/ TickRate

SpecRetry == InitRetry /\ [][NextRetry]_vars

(***************************************************************************)
(* The two middlewares and the handler below them.  pcs[p] counts how      *)
(* often the dispatch of middleware p called call_next for the request it  *)
(* served last.  The handler either answers or raises an exception that is *)
(* not an HTTPException, each time it is called.  Sessions are opened by   *)
(* the session service; the time of the requests plays no part here.       *)
(***************************************************************************)
RateLimit == 1
SessionTracking == 2

Downstream(calls) == [calls |-> calls]

\* How often RateLimitMiddleware.dispatch calls call_next: never for a 429,
\* once outside the try and in the except branch, and a second time, from the
\* except branch, when the call made inside the try raises.
rate_limit_call_next(outcome, handler_raises) ==
    IF outcome = "rate_limit_exceeded" THEN 0
    ELSE IF outcome = "admitted" /\ handler_raises THEN 2
    ELSE 1

\* RateLimitMiddleware.dispatch over a handler.
dispatch_call_next(request, lag, raises, handler_raises) ==
    /\ dispatch(request, lag, raises)
    /\ pcs' = [pcs EXCEPT ![RateLimit] =
                  Downstream(rate_limit_call_next(ret'.outcome, handler_raises))]

\* What can raise while ProxySessionMiddleware.dispatch serves a request.
TrackingFailures == {"", "query", "call_next", "commit"}

\* ProxySessionMiddleware.dispatch: a request of user u with token t, on a
\* proxy path or not, with the auth data on request.state or not.  A session
\* the middleware has just constructed has no request_count yet (the column
\* default is applied by the INSERT), so counting the request on it raises.
session_dispatch(proxy_path, authed, u, t, raises) ==
    LET found == {i \in 1..Len(sessions) : /\ sessions[i].user_id = u
                                           /\ sessions[i].token_id = t
                                           /\ sessions[i].is_active}
        answer(outcome, calls) ==
            /\ ret' = Call("session_dispatch", u, t, 0, outcome, 0, calls, NoClaims, 0)
            /\ pcs' = [pcs EXCEPT ![SessionTracking] = Downstream(calls)]
    IN  /\ IF ~proxy_path \/ ~authed
           THEN answer("not tracked", 1) /\ UNCHANGED sessions
           ELSE IF raises = "query"
           THEN answer("rolled back", 1) /\ UNCHANGED sessions
           ELSE IF raises = "call_next" \/ found = {} \/ raises = "commit"
           THEN answer("rolled back", 2) /\ UNCHANGED sessions
           ELSE \E i \in {CHOOSE x \in found : \A y \in found : x <= y} :
                    /\ sessions[i].request_count < MaxRequests
                    /\ sessions' = [sessions EXCEPT ![i] =
                                      [@ EXCEPT !.last_activity = now,
                                                !.request_count = @ + 1,
                                                !.bytes_transferred = @ + 1024]]
                    /\ answer("tracked", 1)
        /\ UNCHANGED <<now, balance, referral_bonus_earned, txs, tokens, cache, zset>>

InitMiddleware ==
    /\ now = 0
    /\ balance = [u \in Users |-> 0]
    /\ referral_bonus_earned = [u \in Users |-> 0]
    /\ txs = EmptyBag
    /\ tokens = << >>
    /\ cache = {}
    /\ sessions = << >>
    /\ pcs = [p \in Procs |-> Downstream(0)]
    /\ ret = NoCall
    /\ zset = [k \in RateKeys |-> NoKey]

NextMiddleware ==
    \/ \E raises \in RedisFailures, handler_raises \in BOOLEAN :
           /\ LateMembers(RateKeyOf(LoginRequest)) < MaxLateRequests
           /\ dispatch_call_next(LoginRequest, 0, raises, handler_raises)
    \/ \E proxy_path, authed \in BOOLEAN, t \in 1..MaxSessions, raises \in TrackingFailures :
           session_dispatch(proxy_path, authed, "bob", t, raises)
    \/ track_request(TrackCall(1, "device-A", "10.0.0.1")) /\ pcs' = pcs

SpecMiddleware == InitMiddleware /\ [][NextMiddleware]_vars

(***************************************************************************)
(* ProxyService.proxy_websocket once the upstream socket is connected.     *)
(* pcs[1] is the task forward_to_upstream, pcs[2] the task                 *)
(* forward_to_client; ret holds the two connections: whether the peer has  *)
(* closed, the frames it sent that the proxy has not read yet, and what    *)
(* proxy_websocket itself has closed.                                      *)
(***************************************************************************)
MaxFrames == 3

ToUpstream == 1
ToClient == 2

CopyTask(pc) == [pc |-> pc]

WebSocketPair ==
    [op |-> "proxy_websocket", pc |-> "gather", client |-> "open", upstream |-> "open",
     from_client |-> 0, from_upstream |-> 0, sent |-> 0,
     websocket_closed |-> FALSE, upstream_ws_closed |-> FALSE]

InitWebSocket ==
    /\ now = 0
    /\ balance = [u \in Users |-> 0]
    /\ referral_bonus_earned = [u \in Users |-> 0]
    /\ txs = EmptyBag
    /\ tokens = << >>
    /\ cache = {}
    /\ sessions = << >>
    /\ pcs = [p \in Procs |-> CopyTask("running")]
    /\ ret = WebSocketPair
    /\ zset = [k \in RateKeys |-> NoKey]

WebSocketFrame == <<now, balance, referral_bonus_earned, txs, tokens, cache, sessions, zset>>

\* The client sends a frame.
client_send ==
    /\ ret.client = "open" /\ ~ret.websocket_closed
    /\ ret.sent < MaxFrames
    /\ ret' = [ret EXCEPT !.from_client = @ + 1, !.sent = @ + 1]
    /\ UNCHANGED <<pcs, WebSocketFrame>>

\* The upstream sends a frame.
upstream_send ==
    /\ ret.upstream = "open" /\ ~ret.upstream_ws_closed
    /\ ret.sent < MaxFrames
    /\ ret' = [ret EXCEPT !.from_upstream = @ + 1, !.sent = @ + 1]
    /\ UNCHANGED <<pcs, WebSocketFrame>>

\* The client closes its connection.
client_close ==
    /\ ret.client = "open" /\ ~ret.websocket_closed
    /\ ret' = [ret EXCEPT !.client = "closed"]
    /\ UNCHANGED <<pcs, WebSocketFrame>>

\* The upstream closes its connection.
upstream_close ==
    /\ ret.upstream = "open" /\ ~ret.upstream_ws_closed
    /\ ret' = [ret EXCEPT !.upstream = "closed"]
    /\ UNCHANGED <<pcs, WebSocketFrame>>

\* forward_to_upstream: websocket.receive() returns a frame, which is sent on
\* (the send raises on a closed upstream), or the disconnect; until then the
\* task waits.
forward_to_upstream ==
    /\ pcs[ToUpstream].pc = "running"
    /\ \/ /\ ret.from_client > 0
          /\ ret' = [ret EXCEPT !.from_client = @ - 1]
          /\ pcs' = [pcs EXCEPT ![ToUpstream] =
                       IF ret.upstream = "open" THEN @ ELSE CopyTask("ended")]
       \/ /\ ret.from_client = 0 /\ ret.client = "closed"
          /\ pcs' = [pcs EXCEPT ![ToUpstream] = CopyTask("ended")]
          /\ UNCHANGED ret
    /\ UNCHANGED WebSocketFrame

\* forward_to_client: the iteration over upstream_ws yields a frame, which is
\* sent on (the send raises on a closed client), or ends with the connection;
\* until then the task waits.
forward_to_client ==
    /\ pcs[ToClient].pc = "running"
    /\ \/ /\ ret.from_upstream > 0
          /\ ret' = [ret EXCEPT !.from_upstream = @ - 1]
          /\ pcs' = [pcs EXCEPT ![ToClient] =
                       IF ret.client = "open" THEN @ ELSE CopyTask("ended")]
       \/ /\ ret.from_upstream = 0 /\ ret.upstream = "closed"
          /\ pcs' = [pcs EXCEPT ![ToClient] = CopyTask("ended")]
          /\ UNCHANGED ret
    /\ UNCHANGED WebSocketFrame

\* asyncio.gather returns when both tasks have ended; leaving the async with
\* closes the upstream socket and the finally clause closes the client's.
gather ==
    /\ ret.pc = "gather"
    /\ \A task \in Procs : pcs[task].pc = "ended"
    /\ ret' = [ret EXCEPT !.pc = "returned", !.websocket_closed = TRUE,
                          !.upstream_ws_closed = TRUE]
    /\ UNCHANGED <<pcs, WebSocketFrame>>

NextWebSocket ==
    \/ client_send
    \/ upstream_send
    \/ client_close
    \/ upstream_close
    \/ forward_to_upstream
    \/ forward_to_client
    \/ gather

\* The event loop runs a task that can go on; the peers owe nothing.
SpecWebSocket ==
    /\ InitWebSocket
    /\ [][NextWebSocket]_vars
    /\ WF_vars(forward_to_upstream)
    /\ WF_vars(forward_to_client)
    /\ WF_vars(gather)

(***************************************************************************)
(* Properties.                                                             *)
(***************************************************************************)
\* The user's rows of a kind in the transaction log.
RowsOf(kind, u) ==
    BagCardinality(BagOfRows(txs, {r \in BagToSet(txs) : r.type = kind /\ r.user = u}))

\* The active sessions of a token.
ActiveSessionsOf(tok) ==
    {i \in 1..Len(sessions) : sessions[i].token_id = tok /\ sessions[i].is_active}

\* C1: after any sequence of credit_balance, generate_access_token, revoke_token,
\* purchase_bundle and award_referral_bonus calls, successful or failing, every
\* user's balance equals the sum of the amounts of that user's transactions.
C1_BalanceIsSumOfTransactions ==
    \A u \in Users : balance[u] = SumAmounts(txs, u)

\* C1 witness: bob's log holds a deposit, a purchase and a refund, alice's a
\* referral bonus, and neither balance is zero.
C1_Witness ==
    /\ RowsOf("deposit", "bob") >= 1
    /\ RowsOf("purchase", "bob") >= 1
    /\ RowsOf("refund", "bob") >= 1
    /\ RowsOf("referral_bonus", "alice") >= 1
    /\ balance["bob"] > 0
    /\ balance["alice"] > 0

\* C2: with track_request, close_session and cleanup_inactive_sessions run one
\* at a time, every token has at most one session with is_active.
C2_OneActiveSessionPerToken ==
    \A call \in TrackCalls : Cardinality(ActiveSessionsOf(call.token_id)) <= 1

\* C2 witness: token 1 has a closed session of device-A and an active session
\* of device-B, and the last call was a track_request refused for its device.
C2_Witness ==
    /\ \E i \in 1..Len(sessions) : /\ sessions[i].token_id = 1
                                   /\ sessions[i].device_id = "device-A"
                                   /\ ~sessions[i].is_active
    /\ \E i \in ActiveSessionsOf(1) : sessions[i].device_id = "device-B"
    /\ ret.op = "track_request"
    /\ ret.outcome = "DeviceConflictError"

\* C3: two concurrent track_request calls for one token from different devices,
\* both having found no active session, never leave two active sessions.
C3_ConcurrentTrackOneSession ==
    \A p, q \in Procs :
        (/\ p # q
         /\ pcs[p].pc = "done" /\ pcs[q].pc = "done"
         /\ pcs[p].empty /\ pcs[q].empty
         /\ pcs[p].call.token_id = pcs[q].call.token_id
         /\ pcs[p].call.device_id # pcs[q].call.device_id)
        => Cardinality(ActiveSessionsOf(pcs[p].call.token_id)) <= 1

\* The step is a validate_token or a check_token_status call for token t.
ValidationOf(t) ==
    \/ \E get_up, del_up, set_up \in BOOLEAN : validate_token(t, get_up, del_up, set_up)
    \/ \E get_up \in BOOLEAN : check_token_status(t, get_up)

\* C4 as stated: once a token is revoked, every validate_token and
\* check_token_status call for it returns invalid.
C4_RevokedNeverValid ==
    \A t \in 1..Len(tokens) :
        (/\ tokens[t].revoked_at # NULL
         /\ ret.op \in {"validate_token", "check_token_status"}
         /\ ret.tok = t)
        => ret.outcome = "invalid"

\* C4 amended: once a token is revoked, a validate_token or check_token_status
\* call for it returns valid only from a cache entry of the token that is still
\* there and whose expires_at lies in the future; every other call returns
\* invalid.
C4_RevokedValidOnlyFromCache ==
    [][\A t \in 1..Len(tokens) :
          (/\ tokens[t].revoked_at # NULL
           /\ ret'.tok = t
           /\ ret'.outcome = "valid"
           /\ ValidationOf(t))
          => \E e \in cache : /\ e.key = t
                              /\ e.data.expires_at > now
                              /\ ret'.data = e.data]_vars

\* C4 witness: an activated token, revoked before its expiry, with no cache
\* entry, for which validate_token has returned invalid.
C4_Witness ==
    \E t \in 1..Len(tokens) :
        /\ tokens[t].activated_at # NULL
        /\ tokens[t].revoked_at # NULL
        /\ now < expires_at(tokens[t])
        /\ \A e \in cache : e.key # t
        /\ ret.op = "validate_token" /\ ret.tok = t /\ ret.outcome = "invalid"

\* C5: once activated_at of a token is set, no validate_token,
\* check_token_status, revoke_token or force-revoke call changes it, and the
\* token's expiry stays what it was.
C5_ActivationIsStable ==
    [][\A t \in 1..Len(tokens) :
          tokens[t].activated_at # NULL
          => /\ tokens'[t].activated_at = tokens[t].activated_at
             /\ expires_at(tokens'[t]) = expires_at(tokens[t])]_vars

\* C5 witness: a token activated earlier, validated again from storage at a
\* later time and then revoked.
C5_Witness ==
    \E t \in 1..Len(tokens) :
        /\ tokens[t].activated_at # NULL
        /\ tokens[t].activated_at < now
        /\ tokens[t].revoked_at = now
        /\ ret.op \in {"revoke_token", "force_revoke_token"} /\ ret.tok = t

\* C6: for every referred buyer, whatever token and bundle purchases the buyer
\* makes, at most one referral_bonus transaction names the buyer.
C6_OneBonusPerBuyer ==
    \A buyer \in Users :
        BagCardinality(BagOfRows(txs, {r \in BagToSet(txs) :
                                          r.type = "referral_bonus" /\ r.ref = buyer})) <= 1

\* C6 witness: bob has bought the 120.00 bundle twice and alice holds one bonus
\* of 12.00 for him.
C6_Witness ==
    /\ CopiesIn(Transaction("bob", -12000, "purchase", ""), txs) = 2
    /\ CopiesIn(Transaction("alice", 1200, "referral_bonus", "bob"), txs) = 1
    /\ balance["alice"] = 1200

\* C7: for every duration of the price table, generate_access_token appends one
\* purchase of -price and deducts the price, and revoke_token of that token,
\* called next and before any activation, returns a refund equal to the price,
\* restores the balance of before the purchase and appends one refund of +price.
C7_GenerateRevokeRoundTrip ==
    [][/\ (/\ ret'.op = "generate_access_token" /\ ret'.outcome = "ok"
           /\ Len(tokens') = Len(tokens) + 1)
          => /\ ret'.value = get_token_price(ret'.arg)
             /\ balance'[ret'.user] = balance[ret'.user] - get_token_price(ret'.arg)
             /\ txs' = AddRow(txs, Transaction(ret'.user, -get_token_price(ret'.arg),
                                               "purchase", ""))
       /\ (/\ ret.op = "generate_access_token" /\ ret.outcome = "ok"
           /\ ret'.op = "revoke_token" /\ ret'.outcome = "ok"
           /\ ret'.tok = ret.tok
           /\ tokens[ret.tok].activated_at = NULL)
          => /\ ret'.value = get_token_price(ret.arg)
             /\ balance'[ret.user] = ret.bal0
             /\ txs' = AddRow(txs, Transaction(ret.user, get_token_price(ret.arg),
                                               "refund", ""))]_vars

\* C7 witness: a 720 hour token bought and revoked at once, the refund of
\* 300.00 returned and both rows in the log.
C7_Witness ==
    /\ ret.op = "revoke_token" /\ ret.outcome = "ok"
    /\ ret.value = TOKEN_PRICE_30D
    /\ ret.tok \in 1..Len(tokens)
    /\ tokens[ret.tok].duration_hours = 720
    /\ balance[ret.user] = ret.bal0 + TOKEN_PRICE_30D
    /\ CopiesIn(Transaction(ret.user, -TOKEN_PRICE_30D, "purchase", ""), txs) = 1
    /\ CopiesIn(Transaction(ret.user, TOKEN_PRICE_30D, "refund", ""), txs) = 1

\* C8: for an activated, unexpired, non-revoked token every validate_token call
\* returns valid with the claims of the stored token (user_id, token_id,
\* expires_at, duration_hours, scope), from the cache or from storage, and
\* changes no token.
C8_ValidateIsIdempotent ==
    [][\A t \in 1..Len(tokens) :
          (/\ tokens[t].is_active /\ tokens[t].revoked_at = NULL
           /\ tokens[t].activated_at # NULL
           /\ now < expires_at(tokens[t])
           /\ ret'.op = "validate_token" /\ ret'.tok = t
           /\ \E get_up, del_up, set_up \in BOOLEAN :
                  validate_token(t, get_up, del_up, set_up))
          => /\ ret'.outcome = "valid"
             /\ ret'.data = TokenClaims(t, tokens[t])
             /\ tokens' = tokens]_vars

\* C8 witness: a token activated earlier and validated again later, its claims
\* in the cache and in the answer.
C8_Witness ==
    \E t \in 1..Len(tokens) :
        /\ tokens[t].revoked_at = NULL
        /\ tokens[t].activated_at # NULL
        /\ tokens[t].activated_at < now
        /\ now < expires_at(tokens[t])
        /\ ret.op = "validate_token" /\ ret.tok = t /\ ret.outcome = "valid"
        /\ ret.data = TokenClaims(t, tokens[t])
        /\ \E e \in cache : e.key = t /\ e.data = ret.data

\* The step is a successful credit_balance call that follows a successful
\* credit_balance call for the same user.
SecondCredit ==
    /\ ret.op = "credit_balance" /\ ret.outcome = "ok"
    /\ ret'.op = "credit_balance" /\ ret'.outcome = "ok"
    /\ ret'.user = ret.user
    /\ BagCardinality(txs') = BagCardinality(txs) + 1

\* The balance and the deposits after the two credits are those of one credit
\* of the sum.
SameAsOneCredit ==
    /\ balance'[ret.user] = StoreNumeric(ret.bal0 * 10 + ret.arg + ret'.arg)
    /\ ret.row + ret'.row = StoreNumeric(ret.arg + ret'.arg)

\* C9 as stated: for all positive X and Y, credit(X) then credit(Y) leaves the
\* balance and the deposit sum of credit(X + Y).
C9_SplitCredit ==
    [][SecondCredit => SameAsOneCredit]_vars

\* C9 amended: for all positive X and Y of which at least one has no more than
\* two fractional digits, credit(X) then credit(Y) leaves the balance and the
\* deposit sum of credit(X + Y).
C9_SplitCreditWholeCents ==
    [][(SecondCredit /\ (ret.arg % 10 = 0 \/ ret'.arg % 10 = 0)) => SameAsOneCredit]_vars

\* C9 witness: 0.99 credited, then 0.005: the balance is 1.00 and the deposits
\* are 0.99 and 0.01.
C9_Witness ==
    /\ ret.op = "credit_balance" /\ ret.outcome = "ok"
    /\ ret.arg = 5 /\ ret.bal0 = 99
    /\ balance["bob"] = 100
    /\ txs = SetToBag({Transaction("bob", 99, "deposit", ""),
                       Transaction("bob", 1, "deposit", "")})

\* C10: generate_access_token succeeds (201) when the balance equals the price,
\* leaving 0.00, and fails with Insufficient balance (402) when the balance is
\* 0.01 less, creating no token, appending no transaction and leaving the
\* balance as it was.
C10_PurchaseAtTheBoundary ==
    [][(/\ ret'.op = "generate_access_token"
        /\ ret' # ret
        /\ ret'.user \in Users
        /\ ret'.arg \in valid_durations)
       => /\ balance[ret'.user] = get_token_price(ret'.arg)
             => /\ ret'.outcome = "ok" /\ ret'.status = 201
                /\ balance'[ret'.user] = 0
                /\ Len(tokens') = Len(tokens) + 1
          /\ balance[ret'.user] = get_token_price(ret'.arg) - 1
             => /\ ret'.outcome = "Insufficient balance" /\ ret'.status = 402
                /\ tokens' = tokens /\ txs' = txs /\ balance' = balance]_vars

\* C10 witness: a 1 hour token bought with a balance of exactly 1.00, then
\* 0.99 credited and the next purchase refused.
C10_Witness ==
    /\ ret.op = "generate_access_token"
    /\ ret.outcome = "Insufficient balance" /\ ret.status = 402
    /\ ret.arg = 1 /\ ret.bal0 = TOKEN_PRICE_1H - 1
    /\ balance["bob"] = TOKEN_PRICE_1H - 1
    /\ Len(tokens) = 1
    /\ txs = SetToBag({Transaction("bob", 99, "deposit", ""),
                       Transaction("bob", 1, "deposit", ""),
                       Transaction("bob", -TOKEN_PRICE_1H, "purchase", "")})
              (+) SetToBag({Transaction("bob", 99, "deposit", "")})

\* The cache entries of token t whose expires_at has been reached.
StaleEntries(t) == {e \in cache : e.key = t /\ e.data.expires_at <= now}

\* What C11 says of the answer of a validate_token step for an activated token.
ValidOnlyBeforeExpiry(t) ==
    /\ ret'.outcome = "valid" => now < expires_at(tokens[t])
    /\ now = expires_at(tokens[t]) => ret'.outcome = "invalid"
    /\ (/\ now = expires_at(tokens[t]) - 1
        /\ tokens[t].is_active /\ tokens[t].revoked_at = NULL) => ret'.outcome = "valid"

TenthHalfEven(mills) ==
    IF mills % 100 > 50 \/ (mills % 100 = 50 /\ (mills \div 100) % 2 = 1)
    THEN mills \div 100 + 1
    ELSE mills \div 100

\* C12: an awarded referral bonus is 10% of purchase_amount rounded half to
\* even to two decimals and is credited to the referrer's balance; a
\* purchase_amount of exactly 100.00 awards nothing, and 100.01 awards exactly
\* 10.00.
C12_BonusAmount ==
    [][\A c \in AwardCalls :
          (/\ ret'.op = "award_referral_bonus"
           /\ ret'.user = c[1] /\ ret'.arg = c[2]
           /\ award_referral_bonus(c[1], c[2]))
          => /\ ret'.outcome = "ok"
                => /\ ret'.value = TenthHalfEven(c[2])
                   /\ balance' = [balance EXCEPT ![referred_by_id(c[1])] = @ + ret'.value]
                   /\ txs' = AddRow(txs, Transaction(referred_by_id(c[1]), ret'.value,
                                                     "referral_bonus", c[1]))
             /\ c[2] = 100000
                => /\ ret'.outcome = "none"
                   /\ balance' = balance /\ txs' = txs
             /\ (c[2] = 100010 /\ c[1] = "bob" /\ RowsOf("purchase", "bob") = 0)
                => /\ ret'.outcome = "ok"
                   /\ ret'.value = 1000]_vars

\* C12 witness: bonuses of 10.00 for a purchase of 100.01 and of 10.00 for a
\* purchase of 100.05 (the tie 10.005) have been credited to alice.
C12_Witness ==
    /\ ret.op = "award_referral_bonus" /\ ret.outcome = "ok"
    /\ ret.arg = 100050 /\ ret.value = 1000
    /\ txs = SetToBag({Transaction("alice", 1000, "referral_bonus", "bob")})
             (+) SetToBag({Transaction("alice", 1000, "referral_bonus", "bob")})
    /\ balance["alice"] = 2000

\* C13: with Redis up, a request that is neither unidentified nor a superuser's
\* is admitted while fewer than N requests of its key lie within the last W
\* seconds, and is otherwise rejected with 429, limit N, window W and a
\* retry_after in 1..W.
RequestsWithin(key, window) == zcard(zremrangebyscore(zset[key].members, now - window))

C13_SlidingWindow ==
    [][\A request \in RateRequests, lag \in {0, 1} :
          (/\ ret'.op = "dispatch"
           /\ ret'.user = request.identifier
           /\ request.identifier # ""
           /\ ~request.is_superuser
           /\ dispatch(request, lag, ""))
          => LET limit_config == LIMITS[request.limit_type]
                 within == RequestsWithin(<<request.limit_type, request.identifier>>,
                                          limit_config.window)
             IN  /\ within < limit_config.requests => ret'.outcome = "admitted"
                 /\ within >= limit_config.requests
                    => /\ ret'.status = 429
                       /\ ret'.data.limit = limit_config.requests
                       /\ ret'.data.window = limit_config.window
                       /\ ret'.data.retry_after > 0
                       /\ ret'.data.retry_after <= limit_config.window]_vars

\* The fifth request of an address has been admitted in the hour of the first.
C13_Witness ==
    /\ ret.op = "dispatch"
    /\ ret.outcome = "admitted"
    /\ zcard(zset[<<"auth", "10.0.0.1">>].members) = LIMITS.auth.requests

\* C14: a track_request for a token from a device other than the one holding
\* the token's active session fails with DeviceConflictError;
\* cleanup_inactive_sessions(5) closes the sessions idle for more than 5
\* minutes; and a track_request for a token left without an active session
\* succeeds and appends an active session bound to the calling device.
IdleFor(i) == now - sessions[i].last_activity

C14_ConflictUntilReaped ==
    [][/\ \A call \in TrackCalls :
             (ret'.op = "track_request" /\ ret'.tok = call.token_id /\ track_request(call))
             => /\ (\E i \in ActiveSessionsOf(call.token_id) :
                        sessions[i].device_id # call.device_id)
                   => /\ ret'.outcome = "DeviceConflictError"
                      /\ ActiveSessionsOf(call.token_id)' = ActiveSessionsOf(call.token_id)
                /\ ActiveSessionsOf(call.token_id) = {}
                   => /\ ret'.outcome = "ok"
                      /\ Len(sessions') = Len(sessions) + 1
                      /\ ActiveSessionsOf(call.token_id)' = {Len(sessions')}
                      /\ sessions'[Len(sessions')].device_id = call.device_id
       /\ (ret'.op = "cleanup_inactive_sessions" /\ cleanup_inactive_sessions(InactiveMinutes))
          => \A i \in 1..Len(sessions) :
                 (sessions[i].is_active /\ IdleFor(i) > InactiveMinutes * SecondsPerMinute)
                 => ~sessions'[i].is_active]_vars

\* Device A's session of token 1 was closed more than five minutes after its
\* last request, and device B's request then opened session 2.
C14_Witness ==
    /\ Len(sessions) = 2
    /\ sessions[1].token_id = 1 /\ sessions[1].device_id = "device-A"
    /\ ~sessions[1].is_active
    /\ sessions[1].ended_at > sessions[1].last_activity + InactiveMinutes * SecondsPerMinute
    /\ sessions[2].token_id = 1 /\ sessions[2].device_id = "device-B"
    /\ sessions[2].is_active
    /\ ret.op = "track_request" /\ ret.outcome = "ok" /\ ret.value = 2

\* C15: revoke_token by its owner of an active token whose activated_at is set
\* fails with "Cannot revoke activated token" (HTTP 400) and changes nothing:
\* the token stays active with revoked_at null, the balance is unchanged and no
\* refund row is appended.
C15_ActivatedNotRevocable ==
    [][\A t \in IssuedStrings, u \in Users, del_up \in BOOLEAN :
          (/\ ret'.op = "revoke_token" /\ ret'.tok = t /\ ret'.user = u
           /\ t \in 1..Len(tokens)
           /\ tokens[t].user_id = u
           /\ tokens[t].is_active
           /\ tokens[t].activated_at # NULL
           /\ revoke_token(t, u, del_up))
          => /\ ret'.outcome = "Cannot revoke activated token"
             /\ ret'.status = 400
             /\ tokens'[t].is_active
             /\ tokens'[t].revoked_at = NULL
             /\ balance' = balance
             /\ txs' = txs]_vars

\* C16: check_token_status changes no token and no cache entry, whatever the
\* state of the token it is given; for a token that is active, not revoked and
\* not yet activated it answers valid with is_activated false and expires_at
\* null, so such a token is still not activated after the call.
C16_StatusCheckIsReadOnly ==
    [][\A t \in IssuedStrings, get_up \in BOOLEAN :
          (ret'.tok = t /\ check_token_status(t, get_up))
          => /\ tokens' = tokens
             /\ cache' = cache
             /\ (Usable(t) /\ tokens[t].activated_at = NULL)
                => /\ ret'.outcome = "valid"
                   /\ ret'.value = 0
                   /\ ret'.data.expires_at = NULL
                   /\ tokens'[t].activated_at = NULL]_vars

\* The status of a token that was bought and never used has been read.
C16_Witness ==
    /\ ret.op = "check_token_status" /\ ret.outcome = "valid" /\ ret.value = 0
    /\ ret.tok \in 1..Len(tokens)
    /\ tokens[ret.tok].activated_at = NULL
    /\ tokens[ret.tok].is_active

\* C17: a track_request for a token whose active session belongs to another
\* device fails with DeviceConflictError, creates no session and leaves every
\* column of every session, the one it found included, as it was.
C17_ConflictChangesNothing ==
    [][\A call \in TrackCalls :
          (/\ ret'.op = "track_request" /\ ret'.tok = call.token_id
           /\ \E i \in ActiveSessionsOf(call.token_id) :
                  sessions[i].device_id # call.device_id
           /\ track_request(call))
          => /\ ret'.outcome = "DeviceConflictError"
             /\ Len(sessions') = Len(sessions)
             /\ \A i \in 1..Len(sessions) : sessions'[i] = sessions[i]]_vars

\* Device B, calling from another address and later than device A's last
\* request, has been refused on token 1 while device A's session was active.
C17_Witness ==
    /\ ret.op = "track_request" /\ ret.outcome = "DeviceConflictError" /\ ret.tok = 1
    /\ \E i \in ActiveSessionsOf(1) : /\ sessions[i].device_id = "device-A"
                                      /\ sessions[i].ip_address = "10.0.0.1"
                                      /\ sessions[i].last_activity < now

\* C18: the access token secret a client presents in the X-Access-Token
\* header, the zenzefi_access_token cookie or the token query parameter is the
\* value of no header, cookie or query parameter of the request a proxy route
\* sends to the upstream.
Presented(request) ==
    {Header(request, "x-access-token"), Cookie(request, "zenzefi_access_token"),
     QueryParam(request, "token")} \ {""}

SentUpstream(upstream) ==
    {h[3] : h \in upstream.headers} \cup {q[2] : q \in upstream.params}

C18_SecretNotForwarded ==
    [][\A basic_auth \in BasicAuthSettings, get_up, del_up, set_up \in BOOLEAN :
          /\ \A request \in HttpRequests :
                 (/\ ret'.op = "proxy_to_zenzefi" /\ ret'.outcome = "forwarded"
                  /\ proxy_to_zenzefi(request, basic_auth, get_up, del_up, set_up))
                 => Presented(request) \cap SentUpstream(ret'.data) = {}
          /\ \A request \in WebSocketRequests :
                 (/\ ret'.op = "websocket_proxy" /\ ret'.outcome = "forwarded"
                  /\ websocket_proxy(request, basic_auth, get_up, del_up, set_up))
                 => Presented(request) \cap SentUpstream(ret'.data) = {}]_vars

\* C19: a successful purchase_bundle takes exactly total_price from the buyer's
\* balance, appends to the tokens exactly token_count tokens of the buyer, each
\* with the bundle's duration and scope, active and not activated, and adds to
\* the purchase rows exactly one row of -total_price.
PurchaseRows(rows) == BagOfRows(rows, {r \in BagToSet(rows) : r.type = "purchase"})

C19_BundlePurchase ==
    [][\A c \in BundleCalls :
          (/\ ret'.op = "purchase_bundle" /\ ret'.user = c[2] /\ ret'.outcome = "ok"
           /\ purchase_bundle(c[1], c[2], TRUE))
          => LET bundle == Bundles[c[1]]
             IN  /\ balance'[c[2]] = balance[c[2]] - bundle.total_price
                 /\ Len(tokens') = Len(tokens) + bundle.token_count
                 /\ \A i \in 1..Len(tokens) : tokens'[i] = tokens[i]
                 /\ \A i \in (Len(tokens) + 1)..Len(tokens') :
                        tokens'[i] = [user_id |-> c[2],
                                      duration_hours |-> bundle.duration_hours,
                                      scope |-> bundle.scope, activated_at |-> NULL,
                                      is_active |-> TRUE, revoked_at |-> NULL]
                 /\ PurchaseRows(txs') =
                        AddRow(PurchaseRows(txs),
                               Transaction(c[2], -bundle.total_price, "purchase", ""))]_vars

\* bob has bought the pack: two tokens of 168 hours for 153.00.
C19_Witness ==
    /\ ret.op = "purchase_bundle" /\ ret.outcome = "ok" /\ ret.user = "bob"
    /\ Len(tokens) = Bundles["pack"].token_count
    /\ \A i \in 1..Len(tokens) : tokens[i].duration_hours = Bundles["pack"].duration_hours
    /\ ret.row = -Bundles["pack"].total_price

\* C20: a purchase_bundle that fails leaves the balances, the tokens and the
\* transactions as they were; it fails with 404 for a bundle that is missing or
\* inactive and with 402 for a balance below total_price, and may fail while
\* the tokens are issued (status 500: the issuance did not go through).
C20_FailedPurchaseChangesNothing ==
    [][\A c \in BundleCalls :
          (/\ ret'.op = "purchase_bundle" /\ ret'.user = c[2]
           /\ purchase_bundle(c[1], c[2], ret'.status # 500))
          => /\ ret'.outcome # "ok"
                => /\ balance' = balance
                   /\ referral_bonus_earned' = referral_bonus_earned
                   /\ tokens' = tokens
                   /\ txs' = txs
             /\ (c[1] \notin DOMAIN Bundles \/ ~Bundles[c[1]].is_active)
                => ret'.status = 404
             /\ (/\ c[1] \in DOMAIN Bundles /\ Bundles[c[1]].is_active /\ c[2] \in Users
                 /\ balance[c[2]] < Bundles[c[1]].total_price)
                => ret'.status = 402
             /\ ret'.status = 500 => ret'.outcome # "ok"]_vars

\* bob's purchase of the solo bundle, which he could pay, has failed while the
\* token was issued.
C20_Witness ==
    /\ ret.op = "purchase_bundle" /\ ret.status = 500 /\ ret.user = "bob"
    /\ balance["bob"] >= Bundles["solo"].total_price

\* C21: a successful generate_access_token of the 720 hour token by a referred
\* buyer who has no earlier purchase above 100.00 credits the referrer 10% of
\* the price, adds the same to the referrer's referral_bonus_earned and
\* appends one referral_bonus row for the referrer.
LargePurchasesOf(buyer) ==
    BagCardinality(BagOfRows(txs, {r \in BagToSet(txs) : /\ r.user = buyer
                                                          /\ r.type = "purchase"
                                                          /\ r.amount < -BonusThreshold}))

C21_TokenPurchaseAwardsBonus ==
    [][\A buyer \in {u \in Users : referred_by_id(u) \in Users} :
          (/\ ret'.op = "generate_access_token" /\ ret'.outcome = "ok"
           /\ ret'.user = buyer /\ ret'.arg = 720
           /\ LargePurchasesOf(buyer) = 0
           /\ generate_access_token(buyer, 720, "full"))
          => LET referrer == referred_by_id(buyer)
                 bonus == TOKEN_PRICE_30D \div 10
             IN  /\ balance'[referrer] = balance[referrer] + bonus
                 /\ referral_bonus_earned'[referrer] = referral_bonus_earned[referrer] + bonus
                 /\ CopiesIn(Transaction(referrer, bonus, "referral_bonus", buyer), txs') =
                        CopiesIn(Transaction(referrer, bonus, "referral_bonus", buyer), txs) + 1]_vars

\* C22: the award_referral_bonus that follows a committed purchase awards a
\* bonus exactly when the buyer has a referrer, the purchase amount is above
\* 100.00 and the buyer has no earlier purchase above 100.00; purchases of
\* 100.00 or less do not count.
BonusRowsFor(rows, buyer) ==
    BagCardinality(BagOfRows(rows, {r \in BagToSet(rows) :
                                       r.type = "referral_bonus" /\ r.ref = buyer}))

C22_BonusExactlyOnFirstLargePurchase ==
    [][\A c \in BundleCalls :
          (/\ ret'.op = "purchase_bundle" /\ ret'.user = c[2] /\ ret'.outcome = "ok"
           /\ purchase_bundle(c[1], c[2], TRUE))
          => LET awarded == BonusRowsFor(txs', c[2]) = BonusRowsFor(txs, c[2]) + 1
                 due == /\ referred_by_id(c[2]) \in Users
                        /\ Bundles[c[1]].total_price > BonusThreshold
                        /\ LargePurchasesOf(c[2]) = 0
             IN  awarded <=> due]_vars

\* C23: under any interleaving of concurrent generate_access_token and
\* purchase_bundle requests of one user no balance is negative, and each
\* purchase is decided on the balance committed when it commits: it succeeds
\* and takes its price exactly when that balance covers the price, and
\* otherwise fails with insufficient balance and changes nothing.  So of two
\* purchases a balance covers only one of, exactly one succeeds.
PriceOf(call) ==
    IF call.op = "generate_access_token" THEN get_token_price(call.duration_hours)
    ELSE Bundles[call.bundle_id].total_price

C23_ConcurrentPurchases ==
    /\ [](\A u \in Users : balance[u] >= 0)
    /\ [][\A p \in Procs :
             (/\ pcs[p].pc = "locked"
              /\ pcs[p].call.op \in {"generate_access_token", "purchase_bundle"}
              /\ ledger_commit(p))
             => LET u == pcs[p].call.user
                    price == PriceOf(pcs[p].call)
                IN  IF balance[u] >= price
                    THEN /\ pcs'[p].outcome = "ok"
                         /\ balance'[u] = balance[u] - price
                    ELSE /\ pcs'[p].outcome = "Insufficient balance"
                         /\ balance' = balance /\ tokens' = tokens /\ txs' = txs]_vars

\* Two purchases of the 24 hour token arrived while bob held 18.00, the second
\* while the first held the row; the first succeeded, the second was refused.
C23_Witness ==
    \E p, q \in Procs :
        /\ p # q
        /\ pcs[p].pc = "done" /\ pcs[q].pc = "done"
        /\ pcs[p].call = LedgerCall("generate_access_token", "bob", 0, 24, "")
        /\ pcs[q].call = pcs[p].call
        /\ pcs[p].outcome = "ok"
        /\ pcs[q].outcome = "Insufficient balance"
        /\ pcs[q].waited /\ pcs[q].snapshot = TOKEN_PRICE_24H
        /\ Len(tokens) = 1
        /\ balance["bob"] = 0

StripOne(path) == IF path # << >> /\ Head(path) = "/" THEN Tail(path) ELSE path

C25_PathAccessByScope ==
    ret.op = "validate_path_access"
    => ret.allowed =
         CASE ret.scope = "full" -> TRUE
           [] ret.scope = "certificates_only" ->
                \E pattern \in SCOPE_PERMISSIONS.certificates_only :
                    /\ Len(pattern) <= Len(StripOne(ret.path))
                    /\ \A i \in 1..Len(pattern) : StripOne(ret.path)[i] = pattern[i]
           [] OTHER -> FALSE

\* C26: proxy_to_zenzefi forwards a request to the upstream only if the request
\* carried a device id of 8 to 255 characters, presented a token that
\* validate_token accepted, and track_request left the token with an active
\* session of that device (its scope check and its rate limit having passed as
\* well); a request without these is answered 403, 401 or 409 and is not
\* forwarded.
C26_AdmissionBeforeForward ==
    [][\A basic_auth \in BasicAuthSettings, get_up, del_up, set_up \in BOOLEAN :
          \A request \in HttpRequests :
              (/\ ret'.op = "proxy_to_zenzefi" /\ ret'.outcome = "forwarded"
               /\ proxy_to_zenzefi(request, basic_auth, get_up, del_up, set_up))
              => /\ Len(Header(request, "x-device-id")) \in 8..255
                 /\ ret'.tok \in 1..Len(tokens') /\ tokens'[ret'.tok].is_active
                 /\ \E i \in 1..Len(sessions') :
                        /\ sessions'[i].token_id = ret'.tok
                        /\ sessions'[i].device_id = Header(request, "x-device-id")
                        /\ sessions'[i].is_active]_vars

\* C27: when a store operation of the rate limiter raises, the request goes
\* to the downstream handler and is not rejected with 429; a request without
\* an identifier for its class and a request of a superuser pass without the
\* store being read or modified.
Raised(request, raises) ==
    LET limit_config == LIMITS[request.limit_type]
        over == RequestsWithin(<<request.limit_type, request.identifier>>,
                               limit_config.window) >= limit_config.requests
    IN  \/ raises \in {"zremrangebyscore", "zcard"}
        \/ raises = "zrange" /\ over
        \/ raises \in {"zadd", "expire"} /\ ~over

C28_TransactionsAppendOnly ==
    [][\A r \in BagToSet(txs) : CopiesIn(r, txs') >= CopiesIn(r, txs)]_vars

\* C29: two concurrent validate_token calls on a token not yet activated make
\* one activation: an activated_at once committed is not overwritten, both
\* calls return the same expires_at, and once both have returned the cache
\* entry of the token carries the expires_at of the stored row.
FirstUses ==
    {p \in Procs : /\ pcs[p].pc = "done" /\ pcs[p].op = "validate_token"
                   /\ pcs[p].outcome = "valid" /\ pcs[p].first}

C29_SingleActivation ==
    /\ [][\A t \in 1..Len(tokens) :
             tokens[t].activated_at # NULL
             => tokens'[t].activated_at = tokens[t].activated_at]_vars
    /\ [](\A p, q \in FirstUses :
             pcs[p].tok = pcs[q].tok
             => /\ pcs[p].data.expires_at = pcs[q].data.expires_at
                /\ \A e \in cache :
                       e.key = pcs[p].tok
                       => e.data.expires_at = expires_at(tokens[pcs[p].tok]))

\* C30: when a validate_token call has overlapped a revoke_token call on its
\* token, no cache entry of the token remains once both have finished, and
\* every validate_token call started from then on answers invalid.
Finished(op, t) ==
    {p \in Procs : pcs[p].pc = "done" /\ pcs[p].op = op /\ pcs[p].tok = t}

OverlappedRevoke(t) ==
    /\ \E p \in Finished("validate_token", t) : pcs[p].overlapped
    /\ \E q \in Finished("revoke_token", t) : pcs[q].outcome = "ok"
    /\ \A p \in Procs : pcs[p].pc \in {"idle", "done"}

C30_NoEntryAfterOverlap ==
    /\ [](\A t \in 1..Len(tokens) :
             OverlappedRevoke(t) => get_cached_token(t, TRUE) = {})
    /\ [][\A p \in Procs, t \in 1..Len(tokens), get_up, del_up \in BOOLEAN :
             (OverlappedRevoke(t) /\ validate_get(p, t, get_up, del_up))
             => pcs'[p].outcome # "valid"]_vars

\* C30 as the code has it: after the overlap an entry of the token remains only
\* if the validate_token call wrote it once the revocation was committed, or
\* if the cache delete of revoke_token failed; a validate_token call started
\* from then on answers valid only from such an entry, not yet expired, and
\* invalid whenever it reaches the token row.
C30_EntryOnlyFromLateWrite ==
    /\ [](\A t \in 1..Len(tokens) :
             (OverlappedRevoke(t) /\ get_cached_token(t, TRUE) # {})
             => \/ \E p \in Finished("validate_token", t) : pcs[p].overlapped /\ pcs[p].late
                \/ \E q \in Finished("revoke_token", t) :
                       pcs[q].outcome = "ok" /\ ~pcs[q].deleted)
    /\ [][\A p \in Procs :
             /\ \A t \in 1..Len(tokens), get_up, del_up \in BOOLEAN :
                    (/\ OverlappedRevoke(t) /\ validate_get(p, t, get_up, del_up)
                     /\ pcs'[p].outcome = "valid")
                    => \E e \in get_cached_token(t, TRUE) :
                           e.data.expires_at > now /\ pcs'[p].data = e.data
             /\ (/\ pcs[p].pc = "missed" /\ tokens[pcs[p].tok].revoked_at # NULL
                 /\ validate_select(p))
                => pcs'[p].outcome = "invalid"]_vars

\* A validate_token call read the row before the revocation was committed and
\* wrote the cache after revoke_token had deleted the entry: both have
\* finished, and the entry of the revoked token is in the cache.
C30_Witness ==
    \E p, q \in Procs :
        /\ pcs[p].pc = "done" /\ pcs[p].op = "validate_token"
        /\ pcs[p].overlapped /\ pcs[p].late /\ pcs[p].outcome = "valid"
        /\ pcs[q].pc = "done" /\ pcs[q].op = "revoke_token"
        /\ pcs[q].outcome = "ok" /\ pcs[q].deleted
        /\ tokens[1].revoked_at # NULL
        /\ get_cached_token(1, TRUE) # {}


NotRevocable == "Token not found or already revoked"

\* C31: the one issued token is refunded at most once under every interleaving
\* of revoke_token and force-revoke calls, and a revoke_token on a missing,
\* not-owned or inactive token fails with "Token not found or already revoked"
\* and leaves tokens, balances and transactions as they were.
C31_SingleRefund ==
    /\ [](RowsOf("refund", "bob") + RowsOf("refund", "alice") <= 1)
    /\ [][\A p \in Procs, t \in RaceTokens, u \in Users :
            (/\ ~(t \in 1..Len(tokens) /\ tokens[t].user_id = u /\ tokens[t].is_active)
             /\ revoke_lock(p, t, u))
            => /\ ret'.outcome = NotRevocable
               /\ UNCHANGED <<tokens, balance, txs>>]_vars

\* The token was revoked with a refund, and its owner's next revoke_token failed.
C31_Witness ==
    /\ RowsOf("refund", "bob") = 1
    /\ ~tokens[1].is_active
    /\ balance["bob"] = 1100
    /\ ret.op = "revoke_token" /\ ret.user = "bob" /\ ret.tok = 1
    /\ ret.outcome = NotRevocable


\* The members of a key scored within the W seconds that end at score s.
WithinWindow(key, s) ==
    zcard(zremrangebyscore(zset[key].members, s - LIMITS[key[1]].window))
    - zcard(zremrangebyscore(zset[key].members, s))

\* C32: under concurrent requests on one key, the admitted requests whose
\* timestamps fall within a window of W seconds never number more than the
\* limit N of the class.
C32_WindowLimit ==
    \A key \in RateKeys : \A s \in DOMAIN zset[key].members :
        WithinWindow(key, s) <= LIMITS[key[1]].requests


\* One side of the proxied WebSocket is down: a peer has closed or a copy
\* direction has ended.
OneSideDown ==
    \/ ret.client = "closed"
    \/ ret.upstream = "closed"
    \/ \E task \in Procs : pcs[task].pc = "ended"

\* C33: once the client or the upstream closes, or one copy direction fails,
\* both copy tasks end and both connections are closed, with no further frame
\* and no close from the other side.
C33_BothClosedAfterOne ==
    OneSideDown ~> (/\ \A task \in Procs : pcs[task].pc = "ended"
                    /\ ret.websocket_closed /\ ret.upstream_ws_closed)


\* What the user has received: the deposits and the referral bonuses.
Received(u) ==
    SumRows({r \in BagToSet(txs) : r.user = u /\ r.type \in {"deposit", "referral_bonus"}},
            txs)

\* C34: purchases of tokens and of bundles and revocations never leave a user
\* with more than the deposits and referral bonuses received: the refunds of a
\* bundle's tokens stay within the bundle's total_price.
C34_NoGainFromRefunds == \A u \in Users : balance[u] <= Received(u)


\* The amounts of the payments created for a user.
PaymentsOf(u) ==
    SumRows({r \in BagToSet(txs) : "payment_id" \in DOMAIN r /\ r.user = u}, txs)

\* C35: every payment is credited to the balance at most once, whatever
\* simulate_payment_success and handle_webhook calls are made for it; the
\* balance, which only payments feed, stays within the amounts of the payments
\* created.
C35_PaymentCreditedOnce == \A u \in Users : balance[u] <= PaymentsOf(u)


\* C36: every cache entry belongs to an activated token, stores that token's
\* activated_at + duration_hours as expires_at and is dropped by Redis no later
\* than then, the time to live being the validity left when it was written;
\* generate_access_token writes no entry.
C36_CacheEntries ==
    /\ [](\A e \in cache :
             /\ e.key \in 1..Len(tokens)
             /\ tokens[e.key].activated_at # NULL
             /\ e.data.expires_at = expires_at(tokens[e.key])
             /\ e.expire_at = e.data.expires_at)
    /\ [][\A c \in TokenCalls :
             generate_access_token(c[1], c[2], c[3]) => cache' = cache]_vars


\* The result and the storage writes of validate_token.
Stored(v) == [valid |-> v.valid, data |-> v.data, tokens |-> v.tokens]

\* C37: with every cache command raising, validate_token, check_token_status
\* and revoke_token answer and write to storage as they do against a working
\* cache that holds nothing (generate_access_token sends the cache no command).
C37_CacheDownAsEmpty ==
    /\ [](cache = {} =>
            \A t \in IssuedStrings :
                /\ Stored(validated(t, FALSE, FALSE, FALSE))
                   = Stored(validated(t, TRUE, TRUE, TRUE))
                /\ checked(t, FALSE) = checked(t, TRUE))
    /\ [][(cache = {} /\ ret'.op = "revoke_token") =>
            \A t \in IssuedStrings, u \in Users :
                revoke_token(t, u, FALSE) <=> revoke_token(t, u, TRUE)]_vars

\* A token was activated and answered valid while the cache kept nothing of it.
C37_Witness ==
    /\ cache = {}
    /\ ret.op = "validate_token" /\ ret.outcome = "valid"
    /\ tokens[ret.tok].activated_at = now
    /\ ret.data = TokenClaims(ret.tok, tokens[ret.tok])
    /\ validated(ret.tok, FALSE, FALSE, FALSE).valid


\* C38: a rejected request leaves no member in the window, and the request a
\* caller makes retry_after seconds after its rejection or later, no other
\* request of the key in between, goes to the handler.
C38_RetryAdmitted ==
    [][\A p \in Procs :
          LET key == RateKeyOf(LoginRequest)
          IN  /\ pcs'[p].pc = "rejected" /\ ret'.status = 429
                 => \/ /\ zcard(zset'[key].members) <= zcard(zset[key].members)
                       /\ CopiesIn(now, zset'[key].members) = CopiesIn(now, zset[key].members)
                    \/ ~\E lag \in {0, 1}, raises \in RedisFailures : retry(p, lag, raises)
              /\ pcs[p].pc = "rejected" /\ now >= pcs[p].due
                 => \/ ret'.status = 200 /\ pcs'[p].pc = "passed" /\ pcs'[p].waited
                    \/ ~\E lag \in {0, 1}, raises \in RedisFailures :
                           retry(p, lag, raises)]_vars

\* A caller rejected within the hour of five logins came back when told and
\* was admitted.
C38_Witness ==
    \E p \in Procs :
        /\ pcs[p].pc = "passed" /\ pcs[p].waited
        /\ ret.op = "dispatch" /\ ret.outcome = "admitted"
        /\ CopiesIn(now, zset[RateKeyOf(LoginRequest)].members) >= 1
        /\ now > 0


\* C39: cleanup_inactive_sessions(m) closes, with is_active false and ended_at
\* the time of the call, exactly the active sessions whose last_activity is
\* strictly before now - m minutes, returns how many they are and leaves every
\* other session as it was.
C39_CleanupExactlyIdle ==
    [][(/\ ret'.op = "cleanup_inactive_sessions"
        /\ cleanup_inactive_sessions(InactiveMinutes))
       => LET cutoff_time == now - InactiveMinutes * SecondsPerMinute
              idle == {i \in 1..Len(sessions) :
                          sessions[i].is_active /\ sessions[i].last_activity < cutoff_time}
          IN  /\ Len(sessions') = Len(sessions)
              /\ ret'.value = Cardinality(idle)
              /\ \A i \in 1..Len(sessions) :
                     IF i \in idle
                     THEN sessions'[i] = [sessions[i] EXCEPT !.is_active = FALSE,
                                                             !.ended_at = now]
                     ELSE sessions'[i] = sessions[i]]_vars

\* One idle session was closed by the cleanup while a session used since the
\* cutoff stayed active.
C39_Witness ==
    /\ ret.op = "cleanup_inactive_sessions" /\ ret.value = 1
    /\ \E i, j \in 1..Len(sessions) :
           /\ ~sessions[i].is_active /\ sessions[i].ended_at = now
           /\ sessions[i].last_activity < now - InactiveMinutes * SecondsPerMinute
           /\ sessions[j].is_active
           /\ sessions[j].last_activity >= now - InactiveMinutes * SecondsPerMinute


\* C40: for every request, RateLimitMiddleware.dispatch and
\* ProxySessionMiddleware.dispatch each call the handler below them at most
\* once, also when that handler raises an exception that is no HTTPException.
C40_CallNextAtMostOnce == \A p \in Procs : pcs[p].calls <= 1

====
